---------------------------- MODULE Spec2Model ----------------------------
(***************************************************************************)
(* A model of the einsum compiler of einsum-codegen / einsum-derive:       *)
(* the subscripts parser, the Subscripts value (canonical remapping,       *)
(* implicit mode, factorization, cost orders), the brute force path        *)
(* planner and the naive contraction kernel.                               *)
(*                                                                         *)
(* A `char` is its code point (a natural number), a `&str` or `Vec<char>`  *)
(* is a sequence of code points, a BTreeMap is a function whose keys are   *)
(* visited in ascending order, a BTreeSet is a set.                        *)
(***************************************************************************)
EXTENDS Naturals, Integers, Sequences, FiniteSets, Bags, TLC

VARIABLES
    indices,    \* the subscripts string handed to the program (&str)
    pc,         \* which call has returned: "start", "parsed", "subs", "fact", "done"
    parsed,     \* result of RawSubscripts::from_str
    names,      \* the Namespace threaded through the calls
    original,   \* Path.original
    subs,       \* the Subscripts the next call works on
    self,       \* receiver of the last factorize call
    inners,     \* argument `inners` of the last factorize call
    inner,      \* first component returned by the last factorize call
    steps,      \* inner steps of the factorizations made so far (sub.insert(0, inner))
    path,       \* result of brute_force_work / Path.reduced_subscripts
    shapes,     \* the shapes of the arrays handed to the emitted function
    result,     \* what the emitted function returns
    spaces,     \* the Namespace instances alive, in the order they were made
    issued,     \* history: what new_ident has returned on each instance
    cloned,     \* history: the instance and the counter each clone was made from
    ident,      \* the last String escaped_ident returned
    args,       \* the number of argument expressions written in einsum!(..)
    expansion   \* what the expansion of einsum!(..) gives the compiler

vars == <<indices, pc, parsed, names, original, subs, self, inners, inner, steps, path, shapes, result,
          spaces, issued, cloned, ident, args, expansion>>

None == [none |-> TRUE]

Range(s) == {s[i] : i \in 1..Len(s)}

Last(s) == s[Len(s)]

(***************************************************************************)
(* Characters                                                              *)
(***************************************************************************)
ChA == 97

ChZ == 122

ChSpace == 32

ChTab == 9

ChLF == 10

ChCR == 13

ChComma == 44

ChMinus == 45

ChDot == 46

ChGt == 62

ChUnderscore == 95

is_ascii_lowercase(c) == ChA <= c /\ c <= ChZ

\* nom's multispace0 accepts space, tab, carriage return and line feed.
is_multispace(c) == c \in {ChSpace, ChTab, ChCR, ChLF}

(***************************************************************************)
(* Parser (nom combinators).  An IResult is Ok((rest, out)) or Err.        *)
(***************************************************************************)
POk(rest, out) == [ok |-> TRUE, rest |-> rest, out |-> out]

PErr(input) == [ok |-> FALSE, rest |-> input, out |-> <<>>]

RECURSIVE multispace0(_)
multispace0(input) ==
    IF input # <<>> /\ is_multispace(Head(input))
    THEN multispace0(Tail(input))
    ELSE POk(input, <<>>)

\* index = satisfy(|c| c.is_ascii_lowercase())
index(input) ==
    IF input # <<>> /\ is_ascii_lowercase(Head(input))
    THEN POk(Tail(input), Head(input))
    ELSE PErr(input)

\* ellipsis = tag("...")
ellipsis(input) ==
    IF Len(input) >= 3 /\ SubSeq(input, 1, 3) = <<ChDot, ChDot, ChDot>>
    THEN POk(SubSeq(input, 4, Len(input)), <<ChDot, ChDot, ChDot>>)
    ELSE PErr(input)

\* An index with no whitespace allowed before it.
space_index_strict(input) == index(input)

\* tuple((multispace0, index)).map(|(_space, c)| c)
space_index(input) == index(multispace0(input).rest)

RECURSIVE many0_indices(_, _)
\* One turn of many0: the element parsed, or the end of the repetition.
many0_turn(r, input, acc) ==
    IF r.ok THEN many0_indices(r.rest, Append(acc, r.out)) ELSE POk(input, acc)

\* many0(tuple((multispace0, index))): repeats until the element fails and
\* then returns what was collected, the input left before the failed try.
many0_indices(input, acc) == many0_turn(space_index(input), input, acc)

Indices(v) == [kind |-> "Indices", start |-> v, end |-> <<>>]

Ellipsis(s, e) == [kind |-> "Ellipsis", start |-> s, end |-> e]

\* tuple((multispace0, ellipsis, multispace0, indices)), after the ellipsis
subscript_end(s, e) == POk(e.rest, Ellipsis(s.out, e.out))

\* opt(..) of subscript: `s` is the result of the first indices, `e` that
\* of the ellipsis tried after it.
subscript_opt(s, e) ==
    IF e.ok
    THEN subscript_end(s, many0_indices(multispace0(e.rest).rest, <<>>))
    ELSE POk(s.rest, Indices(s.out))

subscript_start(s) == subscript_opt(s, ellipsis(multispace0(s.rest).rest))

\* subscript = { index } [ ellipsis { index } ]
subscript(input) == subscript_start(many0_indices(input, <<>>))

\* char(',') of the separator
comma(i, input) ==
    IF i # <<>> /\ Head(i) = ChComma THEN POk(Tail(i), ChComma) ELSE PErr(input)

\* tuple((multispace0, char(',')))
comma_sep(input) == comma(multispace0(input).rest, input)

RECURSIVE separated_list1_loop(_, _)
\* An element parsed after a separator, put before the ones collected.
separated_list1_elem_first(f, i, res) ==
    IF ~f.ok THEN POk(i, res)
    ELSE separated_list1_loop(f.rest, <<f.out>> \o res)

\* An element parsed after a separator.
separated_list1_elem(f, i, res) ==
    IF ~f.ok THEN POk(i, res)
    ELSE separated_list1_loop(f.rest, Append(res, f.out))

\* A separator tried after an element: `s` is its result.
separated_list1_sep(s, i, res) ==
    IF ~s.ok THEN POk(i, res)
    ELSE IF Len(s.rest) = Len(i) THEN PErr(s.rest)
    ELSE separated_list1_elem(subscript(s.rest), i, res)

\* The loop of nom's separated_list1 after the first element.
separated_list1_loop(i, res) == separated_list1_sep(comma_sep(i), i, res)

separated_list1_first(f) ==
    IF ~f.ok THEN f ELSE separated_list1_loop(f.rest, <<f.out>>)

\* separated_list1(tuple((multispace0, char(','))), subscript)
separated_list1(input) == separated_list1_first(subscript(input))

Some(v) == [some |-> TRUE, value |-> v]

\* The output subscript parsed after "->".
arrow_subscript(o, input) == IF o.ok THEN POk(o.rest, Some(o.out)) ELSE POk(input, None)

\* tag("->"), multispace0, subscript
arrow(i, input) ==
    IF Len(i) >= 2 /\ SubSeq(i, 1, 2) = <<ChMinus, ChGt>>
    THEN arrow_subscript(subscript(multispace0(SubSeq(i, 3, Len(i))).rest), input)
    ELSE POk(input, None)

\* opt(tuple((multispace0, tag("->"), multispace0, subscript)))
arrow_output(input) == arrow(multispace0(input).rest, input)

RawSubscripts(ins, out) == [inputs |-> ins, output |-> out]

subscripts_output(ins, out) == POk(out.rest, RawSubscripts(ins.out, out.out))

subscripts_inputs(ins, input) ==
    IF ~ins.ok THEN PErr(input) ELSE subscripts_output(ins, arrow_output(ins.rest))

\* subscripts = subscript {`,` subscript} [ `->` subscript ]
subscripts(input) == subscripts_inputs(separated_list1(multispace0(input).rest), input)

Ok(v) == [ok |-> TRUE, value |-> v]

Err(msg, arg) == [ok |-> FALSE, error |-> msg, input |-> arg]

\* if let Ok((_, ss)) = subscripts(input).finish() { Ok(ss) } else { bail!(..) }
from_str_finish(r, input) ==
    IF r.ok THEN Ok(r.out) ELSE Err("Invalid subscripts", input)

\* impl FromStr for RawSubscripts
from_str(input) == from_str_finish(subscripts(input), input)

(***************************************************************************)
(* Namespace and Position                                                  *)
(***************************************************************************)
Arg(n) == [tag |-> "Arg", n |-> n]

Out(n) == [tag |-> "Out", n |-> n]

\* Namespace::init
Namespace_init == [last |-> 0]

\* A clone that starts again from the counter of init.
clone_fresh(ns) == Namespace_init

\* #[derive(Clone)]: a copy of the counter.
clone(ns) == [last |-> ns.last]

\* A new_ident that leaves the counter where it was.
new_ident_stuck(ns) == [pos |-> Out(ns.last), names |-> ns]

\* Namespace::new_ident: the identifier issued and the namespace afterwards.
new_ident(ns) == [pos |-> Out(ns.last), names |-> [last |-> ns.last + 1]]

(***************************************************************************)
(* Subscript and Subscripts                                                *)
(*                                                                         *)
(* A Subscripts value is [inputs, output].  The model adds a history       *)
(* field `origin`, read by no operation: it maps each index letter of the  *)
(* value to the letter it stood for before the remappings made so far.     *)
(***************************************************************************)
Subscript(raw, position) == [raw |-> raw, position |-> position]

\* Subscript::indices
IndicesOf(s) == s.raw.start \o s.raw.end

Subscripts(ins, out, origin) == [inputs |-> ins, output |-> out, origin |-> origin]

\* The letters of the inputs, in input order (the order count_indices,
\* factorize and remap_indices visit them).
RECURSIVE InputLetters(_)
InputLetters(ins) ==
    IF ins = <<>> THEN <<>> ELSE IndicesOf(Head(ins)) \o InputLetters(Tail(ins))

RECURSIVE count_chars(_, _)
\* count.entry(c).and_modify(|n| *n += 1).or_insert(1), for every c of cs
count_chars(cs, count) ==
    IF cs = <<>> THEN count
    ELSE LET c == Head(cs)
         IN  count_chars(Tail(cs),
                 IF c \in DOMAIN count
                 THEN [count EXCEPT ![c] = @ + 1]
                 ELSE count @@ (c :> 1))

\* count_indices
count_indices(ins) == count_chars(InputLetters(ins), <<>>)

RECURSIVE SortedKeys(_)
\* The keys of a BTreeMap (the elements of a BTreeSet) in iteration order.
SortedKeys(S) ==
    IF S = {} THEN <<>>
    ELSE LET m == CHOOSE x \in S : \A y \in S : x <= y
         IN  <<m>> \o SortedKeys(S \ {m})

RECURSIVE remap_update(_, _)
\* The closure `update` of remap_indices, folded over the letters it visits:
\* a letter not yet in the map gets 'a' + map.len().
remap_update(cs, map) ==
    IF cs = <<>> THEN map
    ELSE LET c == Head(cs)
         IN  remap_update(Tail(cs),
                 IF c \in DOMAIN map THEN map
                 ELSE map @@ (c :> ChA + Cardinality(DOMAIN map)))

\* A map that leaves every letter as it is written.
remap_map_as_written(ss) ==
    [c \in Range(InputLetters(ss.inputs) \o IndicesOf(ss.output)) |-> c]

\* A map built from the output first and the inputs after it.
remap_map_output_first(ss) ==
    remap_update(IndicesOf(ss.output) \o InputLetters(ss.inputs), <<>>)

\* The map remap_indices builds: inputs in order, then the output.
remap_map(ss) ==
    remap_update(InputLetters(ss.inputs) \o IndicesOf(ss.output), <<>>)

RECURSIVE remap_chars(_, _)
\* indices.iter_mut(): every letter replaced by its image under `map`.
remap_chars(cs, map) ==
    IF cs = <<>> THEN <<>> ELSE <<map[Head(cs)]>> \o remap_chars(Tail(cs), map)

remap_raw(raw, map) ==
    [kind  |-> raw.kind,
     start |-> remap_chars(raw.start, map),
     end   |-> remap_chars(raw.end, map)]

RECURSIVE remap_inputs(_, _)
remap_inputs(ins, map) ==
    IF ins = <<>> THEN <<>>
    ELSE <<Subscript(remap_raw(Head(ins).raw, map), Head(ins).position)>>
             \o remap_inputs(Tail(ins), map)

RECURSIVE remap_origin(_, _, _)
\* The history field after a remapping: the new letter of x stands for what
\* x stood for.
remap_origin(keys, map, origin) ==
    IF keys = <<>> THEN <<>>
    ELSE (map[Head(keys)] :> origin[Head(keys)]) @@ remap_origin(Tail(keys), map, origin)

\* Every index of ss replaced by its image under `map`.
remap_with(ss, map) ==
    Subscripts(
        remap_inputs(ss.inputs, map),
        Subscript(remap_raw(ss.output.raw, map), ss.output.position),
        remap_origin(SortedKeys(DOMAIN map), map, ss.origin))

\* Subscripts::remap_indices
remap_indices(ss) == remap_with(ss, remap_map(ss))

\* A synthesized output that takes every key of `count`.
implicit_output_every(count) == SortedKeys(DOMAIN count)

\* The synthesized output of implicit mode: the keys of `count` whose value
\* is 1, in the BTreeMap's order.
implicit_output(count) == SortedKeys({c \in DOMAIN count : count[c] = 1})

Identity(S) == [c \in S |-> c]

\* The candidate `cand` of from_raw, before remap_indices.
from_raw_cand(ins, out) ==
    Subscripts(ins, out, Identity(Range(InputLetters(ins)) \cup Range(IndicesOf(out))))

\* The output subscript of from_raw: the one given, or the synthesized one.
from_raw_output(ins, output, position) ==
    IF output # None
    THEN Subscript(output.value, position)
    ELSE Subscript(Indices(implicit_output(count_indices(ins))), position)

RECURSIVE from_raw_enumerate(_, _)
\* inputs.iter().enumerate(): input i at position Arg(i)
from_raw_enumerate(ins, i) ==
    IF ins = <<>> THEN <<>>
    ELSE <<Subscript(Head(ins), Arg(i))>> \o from_raw_enumerate(Tail(ins), i + 1)

from_raw_inputs(raw) == from_raw_enumerate(raw.inputs, 0)

from_raw_with(ins, output, id) ==
    [value |-> remap_indices(from_raw_cand(ins, from_raw_output(ins, output, id.pos))),
     names |-> id.names]

\* Subscripts::from_raw: the value returned and the namespace afterwards.
from_raw(ns, raw) == from_raw_with(from_raw_inputs(raw), raw.output, new_ident(ns))

from_raw_ok(r) == [ok |-> TRUE, value |-> r.value, names |-> r.names]

from_raw_indices_with(ns, raw) ==
    IF raw.ok THEN from_raw_ok(from_raw(ns, raw.value))
    ELSE [ok |-> FALSE, value |-> raw, names |-> ns]

\* Subscripts::from_raw_indices
from_raw_indices(ns, str) == from_raw_indices_with(ns, from_str(str))

\* A contraction set that takes the indices that occur once as well.
contraction_of_any(count, output) ==
    {c \in DOMAIN count : count[c] >= 1} \ Range(output)

\* A contraction set that takes every repeated index, kept or not.
contraction_of_repeated(count, output) ==
    {c \in DOMAIN count : count[c] > 1}

contraction_of(count, output) ==
    {c \in DOMAIN count : count[c] > 1} \ Range(output)

\* Subscripts::contraction_indices
contraction_indices(ss) == contraction_of(count_indices(ss.inputs), IndicesOf(ss.output))

\* Subscripts::memory_order
memory_order(ss) == Len(IndicesOf(ss.output))

\* Subscripts::compute_order
compute_order(ss) == memory_order(ss) + Cardinality(contraction_indices(ss))

\* A rendering that writes an ellipsis as it is written in the string.
display_dots(raw) ==
    IF raw.kind = "Ellipsis" THEN raw.start \o <<ChDot, ChDot, ChDot>> \o raw.end
    ELSE raw.start

\* impl Display for RawSubscript: the indices, an ellipsis as "___".
display(raw) ==
    IF raw.kind = "Ellipsis"
    THEN raw.start \o <<ChUnderscore, ChUnderscore, ChUnderscore>> \o raw.end
    ELSE raw.start

RECURSIVE escaped_inputs(_, _)
\* for input in &self.inputs { write!(out, "{}", input.raw); write!(out, "_") }
escaped_inputs(ins, out) ==
    IF ins = <<>> THEN out
    ELSE escaped_inputs(Tail(ins), (out \o display(Head(ins).raw)) \o <<ChUnderscore>>)

\* Subscripts::escaped_ident
escaped_ident(ss) ==
    escaped_inputs(ss.inputs, <<>>) \o (<<ChUnderscore>> \o display(ss.output.raw))

(***************************************************************************)
(* Factorization                                                           *)
(***************************************************************************)
\* and_modify(|(i, _)| *i += 1).or_insert((1, 0)), or the same for `o`
fact_entry(e, is_inner) ==
    IF is_inner THEN <<e[1] + 1, e[2]>> ELSE <<e[1], e[2] + 1>>

fact_insert(map, c, is_inner) ==
    IF c \in DOMAIN map
    THEN [map EXCEPT ![c] = fact_entry(@, is_inner)]
    ELSE map @@ (c :> fact_entry(<<0, 0>>, is_inner))

RECURSIVE fact_count(_, _, _)
\* The entries of `indices` that one input adds: the pair (inner, outer) of
\* each of its letters, the first component counted when the input is one
\* of `inners` and the second otherwise.
fact_count(cs, is_inner, map) ==
    IF cs = <<>> THEN map
    ELSE fact_count(Tail(cs), is_inner, fact_insert(map, Head(cs), is_inner))

RECURSIVE fact_indices(_, _, _)
\* The loop over self.inputs of factorize.
fact_indices(ins, pos, map) ==
    IF ins = <<>> THEN map
    ELSE fact_indices(Tail(ins), pos,
             fact_count(IndicesOf(Head(ins)), Head(ins).position \in pos, map))

\* A filter that keeps every index of the inner inputs.
fact_keep_all(i, o) == i >= 1

\* The filter of factorize that decides which indices the intermediate keeps.
fact_keep(i, o) == i = 1 \/ (i >= 2 /\ o > 0)

\* The indices of the intermediate tensor, in the BTreeMap's order.
fact_out(map) ==
    Indices(SortedKeys({c \in DOMAIN map : fact_keep(map[c][1], map[c][2])}))

fact_inner_inputs(ss, pos) ==
    LET IsInner(x) == x.position \in pos IN SelectSeq(ss.inputs, IsInner)

fact_outer_inputs(ss, pos) ==
    LET IsOuter(x) == x.position \notin pos IN SelectSeq(ss.inputs, IsOuter)

\* A factorize that pushes the intermediate after the other inputs.
fact_pair_out_last(ss, pos, out, ns) ==
    [inner |-> remap_indices(Subscripts(fact_inner_inputs(ss, pos), out, ss.origin)),
     outer |-> remap_indices(Subscripts(fact_outer_inputs(ss, pos) \o <<out>>, ss.output, ss.origin)),
     names |-> ns]

RECURSIVE reversed(_)
reversed(cs) == IF cs = <<>> THEN <<>> ELSE reversed(Tail(cs)) \o <<Head(cs)>>

\* A factorize whose outer part takes the intermediate with its axes in the
\* opposite order.
fact_pair_reversed(ss, pos, out, ns) ==
    [inner |-> remap_indices(Subscripts(fact_inner_inputs(ss, pos), out, ss.origin)),
     outer |-> remap_indices(Subscripts(
                   <<Subscript(Indices(reversed(IndicesOf(out))), out.position)>>
                       \o fact_outer_inputs(ss, pos),
                   ss.output, ss.origin)),
     names |-> ns]

\* The two Subscripts factorize builds around the intermediate `out`.
fact_pair(ss, pos, out, ns) ==
    [inner |-> remap_indices(Subscripts(fact_inner_inputs(ss, pos), out, ss.origin)),
     outer |-> remap_indices(Subscripts(<<out>> \o fact_outer_inputs(ss, pos), ss.output, ss.origin)),
     names |-> ns]

fact_with(ss, pos, id) ==
    fact_pair(ss, pos, Subscript(fact_out(fact_indices(ss.inputs, pos, <<>>)), id.pos), id.names)

\* Subscripts::factorize: (inner, outer) and the namespace afterwards.
factorize(ss, ns, pos) == fact_with(ss, pos, new_ident(ns))

(***************************************************************************)
(* Path planner                                                            *)
(***************************************************************************)
Max2(x, y) == IF x >= y THEN x ELSE y

RECURSIVE path_compute_order(_)
\* fn compute_order(ss: &[Subscripts]): the maximum over the steps
path_compute_order(p) ==
    IF Len(p) = 1 THEN compute_order(p[1])
    ELSE Max2(compute_order(Head(p)), path_compute_order(Tail(p)))

RECURSIVE path_memory_order(_)
\* fn memory_order(ss: &[Subscripts]): the maximum over the steps
path_memory_order(p) ==
    IF Len(p) = 1 THEN memory_order(p[1])
    ELSE Max2(memory_order(Head(p)), path_memory_order(Tail(p)))

\* The key of min_by_key.
path_key(p) == <<path_compute_order(p), path_memory_order(p)>>

\* Ord for (usize, usize)
KeyLess(k1, k2) == k1[1] < k2[1] \/ (k1[1] = k2[1] /\ k1[2] < k2[2])

RECURSIVE min_by_key_last(_, _, _)
\* A scan that lets a later element replace an equal running minimum.
min_by_key_last(keys, best, k) ==
    IF k > Len(keys) THEN best
    ELSE min_by_key_last(keys, IF KeyLess(keys[best], keys[k]) THEN best ELSE k, k + 1)

\* Iterator::min_by_key keeps the running minimum unless the next key is
\* strictly smaller: the first of several equally minimum elements wins.
RECURSIVE min_by_key_from(_, _, _)
min_by_key_from(keys, best, k) ==
    IF k > Len(keys) THEN best
    ELSE min_by_key_from(keys, IF KeyLess(keys[k], keys[best]) THEN k ELSE best, k + 1)

\* A choice that takes the candidate enumerated first, whatever its key.
min_by_key_first(keys) == 1

\* The position of the element min_by_key returns.
min_by_key_index(keys) == min_by_key_from(keys, 1, 2)

RECURSIVE path_keys(_, _)
\* The key of every candidate, in the order of the candidates.
path_keys(cands, acc) ==
    IF cands = <<>> THEN acc
    ELSE path_keys(Tail(cands), Append(acc, path_key(Head(cands))))

min_by_key(cands) == cands[min_by_key_index(path_keys(cands, <<>>))]

RECURSIVE Pow2(_)
Pow2(n) == IF n = 0 THEN 1 ELSE 2 * Pow2(n - 1)

\* The positions that mask m selects: bit i selects input i.
mask_pos(ss, m) ==
    {ss.inputs[i + 1].position :
        i \in {j \in 0..(Len(ss.inputs) - 1) : (m \div Pow2(j)) % 2 = 1}}

\* A filter that lets the set of all tensors through.
pos_ok_all(pos, n) == Cardinality(pos) >= 2

\* At least two tensors, and not all.
pos_ok(pos, n) == Cardinality(pos) >= 2 /\ Cardinality(pos) < n

RECURSIVE brute_force_work(_, _)
\* A candidate with the inner step put after the plan of the rest.
subpath_inner_last(f) == brute_force_work(f.names, f.outer) \o <<f.inner>>

\* One candidate: factorize on a clone of the namespace, plan the rest.
subpath(f) == <<f.inner>> \o brute_force_work(f.names, f.outer)

\* filter_map and map of brute_force_work for one mask: a candidate or
\* nothing.  The candidate factorizes on `names.clone()`.
subpath_of(ns, ss, pos) ==
    IF pos_ok(pos, Len(ss.inputs)) THEN <<subpath(factorize(ss, clone(ns), pos))>> ELSE <<>>

\* The Namespace of the caller after a branch that issued its identifier
\* from the Namespace of the caller itself.
names_after_shared(ns, ss, pos) ==
    IF pos_ok(pos, Len(ss.inputs)) THEN factorize(ss, ns, pos).names ELSE ns

\* The Namespace of the caller after the closure has run for one mask: the
\* closure binds `names` anew to the clone and never writes to the caller's.
names_after(ns, ss, pos) == ns

\* The candidates in the order min_by_key sees them: the masks ascending,
\* then [subscripts].
RECURSIVE subpaths_from(_, _, _, _)
subpaths_from(ns, ss, m, acc) ==
    IF m >= Pow2(Len(ss.inputs)) THEN Append(acc, <<ss>>)
    ELSE subpaths_from(names_after(ns, ss, mask_pos(ss, m)), ss, m + 1,
                       acc \o subpath_of(ns, ss, mask_pos(ss, m)))

subpaths(ns, ss) == subpaths_from(ns, ss, 0, <<>>)

\* A planner that returns at once for one input only, and splits a pair into
\* the pair and a step that takes its result.
brute_force_work_eager(ns, ss) ==
    IF Len(ss.inputs) <= 1 THEN <<ss>>
    ELSE IF Len(ss.inputs) = 2
         THEN <<factorize(ss, clone(ns), mask_pos(ss, 3)).inner,
                factorize(ss, clone(ns), mask_pos(ss, 3)).outer>>
         ELSE min_by_key(subpaths(ns, ss))

brute_force_work(ns, ss) ==
    IF Len(ss.inputs) <= 2 THEN <<ss>>
    ELSE min_by_key(subpaths(ns, ss))

RECURSIVE names_from(_, _, _)
\* The Namespace of the caller after the masks m, m + 1, .. have been tried.
names_from(ns, ss, m) ==
    IF m >= Pow2(Len(ss.inputs)) THEN ns
    ELSE names_from(names_after(ns, ss, mask_pos(ss, m)), ss, m + 1)

\* What brute_force_work leaves in the `names` it was given.
brute_force_names(ns, ss) ==
    IF Len(ss.inputs) <= 2 THEN ns ELSE names_from(ns, ss, 0)

(***************************************************************************)
(* The emitted function (naive loops)                                      *)
(*                                                                         *)
(* The function is generic in the element type.  The model runs it on the  *)
(* most general elements: formal sums (bags) of formal products (bags) of  *)
(* the elements of its arguments, the element of argument p at index t     *)
(* being the atom <<p, t>>.  An array is [shape, data], data a function of *)
(* the index tuples, which count from 0.                                   *)
(***************************************************************************)
\* Bound of the size of an axis.
MaxDim == 2

Atom(position, t) == SetToBag({SetToBag({<<position, t>>})})

\* ndarray::Array::zeros: the empty sum
Zero == EmptyBag

RECURSIVE poly_mul_pairs(_, _, _, _)
poly_mul_pick(c, pairs, p, q, acc) ==
    poly_mul_pairs(pairs \ {c}, p, q, acc (+) ((c[1] (+) c[2]) :> (p[c[1]] * q[c[2]])))

\* The products of the pairs of terms of p and q, added to acc.
poly_mul_pairs(pairs, p, q, acc) ==
    IF pairs = {} THEN acc
    ELSE poly_mul_pick(CHOOSE c \in pairs : TRUE, pairs, p, q, acc)

\* The operator * of the element type
Mul(p, q) == poly_mul_pairs((DOMAIN p) \X (DOMAIN q), p, q, EmptyBag)

\* The operator + of the element type
Add(p, q) == p (+) q

Tensor(shape, data) == [shape |-> shape, data |-> data]

\* The index tuples of an array of this shape.
IndexTuples(shape) ==
    {t \in [1..Len(shape) -> 0..(MaxDim - 1)] : \A k \in 1..Len(shape) : t[k] < shape[k]}

\* The array the caller hands in at `position`.
ArgTensor(position, shape) ==
    Tensor(shape, [t \in IndexTuples(shape) |-> Atom(position, t)])

RECURSIVE arg_env(_, _, _)
\* The arguments of the function, by position.
arg_env(ins, shs, k) ==
    IF k > Len(ins) THEN <<>>
    ELSE (ins[k].position :> ArgTensor(ins[k].position, shs[k])) @@ arg_env(ins, shs, k + 1)

RECURSIVE size_axes(_, _, _, _)
\* let (n_a, _, n_b) = arg.dim(): an axis binds n_x unless x has appeared.
size_axes(cs, shape, k, n) ==
    IF k > Len(cs) THEN n
    ELSE size_axes(cs, shape, k + 1,
             IF cs[k] \in DOMAIN n THEN n ELSE n @@ (cs[k] :> shape[k]))

RECURSIVE define_array_size(_, _, _)
\* define_array_size: the sizes n_x, from the first axis labelled x.
define_array_size(ins, env, n) ==
    IF ins = <<>> THEN n
    ELSE define_array_size(Tail(ins), env,
             size_axes(IndicesOf(Head(ins)), env[Head(ins).position].shape, 1, n))

\* Asserts that look at the first axis of every input only.
array_size_asserts_first(ins, env, n) ==
    \A i \in 1..Len(ins) :
        \A k \in 1..Len(IndicesOf(ins[i])) :
            k = 1 => env[ins[i].position].shape[k] = n[IndicesOf(ins[i])[k]]

\* array_size_asserts: every axis has the size bound to its index.
array_size_asserts(ins, env, n) ==
    \A i \in 1..Len(ins) :
        \A k \in 1..Len(IndicesOf(ins[i])) :
            env[ins[i].position].shape[k] = n[IndicesOf(ins[i])[k]]

\* n_ident(i): the identifier n_{i}
n_ident(i) == <<110, ChUnderscore, i>>

RECURSIVE size_idents(_, _, _)
\* The names of one tuple of define_array_size and the indices that have
\* appeared after it: n_x where x appears for the first time, `_` elsewhere.
size_idents(cs, appeared, acc) ==
    IF cs = <<>> THEN [tuple |-> acc, appeared |-> appeared]
    ELSE size_idents(Tail(cs), appeared \cup {Head(cs)},
             Append(acc, IF Head(cs) \in appeared THEN <<ChUnderscore>>
                         ELSE n_ident(Head(cs))))

RECURSIVE define_array_size_let(_, _)
\* define_array_size: the tuple pattern of `let (..) = arg.dim();` for
\* every input.
define_array_size_let(ins, appeared) ==
    IF ins = <<>> THEN <<>>
    ELSE <<size_idents(IndicesOf(Head(ins)), appeared, <<>>).tuple>>
             \o define_array_size_let(Tail(ins),
                    size_idents(IndicesOf(Head(ins)), appeared, <<>>).appeared)

RECURSIVE n_each_tuple(_, _)
\* (0..arg.indices().len()).map(|m| format_ident!("n_{}", m))
n_each_tuple(m, len) ==
    IF m >= len THEN <<>> ELSE <<<<110, ChUnderscore, 48 + m>>>> \o n_each_tuple(m + 1, len)

RECURSIVE array_size_asserts_let(_)
\* array_size_asserts: the tuple pattern of `let (..) = arg.dim();` for
\* every input.
array_size_asserts_let(ins) ==
    IF ins = <<>> THEN <<>>
    ELSE <<n_each_tuple(0, Len(IndicesOf(Head(ins))))>> \o array_size_asserts_let(Tail(ins))

\* Loop variables with the contraction indices outermost.
contraction_loops_sum_first(ss) == SortedKeys(contraction_indices(ss)) \o IndicesOf(ss.output)

\* The loop variables of contraction, outermost first: the indices of the
\* output, then the contraction indices in the order of the BTreeSet.
contraction_loops(ss) == IndicesOf(ss.output) \o SortedKeys(contraction_indices(ss))

\* The emitted function compiles: every n_x and every index variable it
\* uses is bound.
compiles(ss, n) ==
    /\ Range(IndicesOf(ss.output)) \subseteq DOMAIN n
    /\ Range(InputLetters(ss.inputs)) \subseteq Range(contraction_loops(ss))

RECURSIVE size_tuple(_, _)
\* (n_a, n_b, ..) of define_output_array
size_tuple(cs, n) == IF cs = <<>> THEN <<>> ELSE <<n[Head(cs)]>> \o size_tuple(Tail(cs), n)

RECURSIVE index_tuple(_, _)
\* (a, b, ..): the values of the index variables
index_tuple(cs, idx) ==
    IF cs = <<>> THEN <<>> ELSE <<idx[Head(cs)]>> \o index_tuple(Tail(cs), idx)

\* arg[(a, b, ..)]
inner_arg(arg, idx, env) == env[arg.position].data[index_tuple(IndicesOf(arg), idx)]

RECURSIVE inner_mul(_, _, _, _)
\* arg0[..] * arg1[..] * ..
inner_mul(ins, idx, env, acc) ==
    IF ins = <<>> THEN acc
    ELSE inner_mul(Tail(ins), idx, env, Mul(acc, inner_arg(Head(ins), idx, env)))

\* A statement that adds to the element (+=).
kernel_add_assign(old, val) == Add(old, val)

\* The statement of contraction_inner is a plain assignment (=).
kernel_assign(old, val) == val

\* The statement `out[(a, b, ..)] = arg0[..] * arg1[..] * ..;` as emitted.
contraction_inner(ss) == [kind |-> "assign", output |-> ss.output, args |-> ss.inputs]

\* The loop `for x in 0..n_x { tt }` as emitted.
for_tt(x, tt) == [kind |-> "for", index |-> x, lo |-> 0, n |-> x, body |-> tt]

RECURSIVE contraction_for(_, _)
\* contraction_for: the loops are wrapped around `tt` from the last index to
\* the first (indices.iter().rev()).
contraction_for(idxs, tt) ==
    IF idxs = <<>> THEN tt
    ELSE contraction_for(SubSeq(idxs, 1, Len(idxs) - 1), for_tt(Last(idxs), tt))

\* naive::contraction: the loop nest emitted for ss.
contraction(ss) == contraction_for(contraction_loops(ss), contraction_inner(ss))

\* The assignment statement executed with the index variables at idx.
exec_assign(tt, idx, env, out) ==
    [out EXCEPT ![index_tuple(IndicesOf(tt.output), idx)] =
        kernel_assign(@, inner_mul(Tail(tt.args), idx, env,
                                   inner_arg(Head(tt.args), idx, env)))]

RECURSIVE exec(_, _, _, _, _)
RECURSIVE exec_range(_, _, _, _, _, _)
\* The iterations v, v + 1, .. of the loop tt.
exec_range(tt, v, n, idx, env, out) ==
    IF v >= n[tt.n] THEN out
    ELSE exec_range(tt, v + 1, n, idx, env,
             exec(tt.body, n, (tt.index :> v) @@ idx, env, out))

\* The emitted statements executed: a loop binds its variable to lo, lo + 1,
\* .. in turn and runs its body.
exec(tt, n, idx, env, out) ==
    IF tt.kind = "for" THEN exec_range(tt, tt.lo, n, idx, env, out)
    ELSE exec_assign(tt, idx, env, out)

\* define_output_array
define_output_array(shape) == [t \in IndexTuples(shape) |-> Zero]

inner_run(ss, env, n, shape) ==
    Tensor(shape, exec(contraction(ss), n, <<>>, env, define_output_array(shape)))

inner_with(ss, env, n) ==
    IF ~compiles(ss, n) THEN [error |-> "compile"]
    ELSE IF ~array_size_asserts(ss.inputs, env, n) THEN [error |-> "panic"]
    ELSE inner_run(ss, env, n, size_tuple(IndicesOf(ss.output), n))

\* The body of the function emitted for ss (naive::inner), run on env.
naive_inner(ss, env) == inner_with(ss, env, define_array_size(ss.inputs, env, <<>>))

(***************************************************************************)
(* Inputs                                                                  *)
(***************************************************************************)
\* Bounds of the well-formed subscripts strings: inputs, letters per
\* subscript, distinct letters.
MaxInputs == 3

MaxLen == 2

NumLetters == 2

Letters == ChA..(ChA + NumLetters - 1)

WordsOver(L, n) == UNION {[1..k -> L] : k \in 0..n}

Words(n) == WordsOver(Letters, n)

\* Raw subscripts without and with an ellipsis.
RawSubscriptSet ==
    {Indices(w) : w \in Words(MaxLen)}
        \cup {Ellipsis(w, <<>>) : w \in Words(MaxLen - 1)}

RawOutputSet == {None} \cup {Some(r) : r \in RawSubscriptSet}

\* The text of a raw subscript, as the grammar writes it.
WriteSubscript(r) ==
    IF r.kind = "Ellipsis" THEN r.start \o <<ChDot, ChDot, ChDot>> \o r.end ELSE r.start

RECURSIVE WriteInputs(_)
WriteInputs(ins) ==
    IF Len(ins) = 1 THEN WriteSubscript(ins[1])
    ELSE WriteSubscript(ins[1]) \o <<ChComma>> \o WriteInputs(Tail(ins))

\* The subscripts string of a raw subscripts, without whitespace.
WriteSubscripts(raw) ==
    WriteInputs(raw.inputs)
        \o (IF raw.output = None THEN <<>>
            ELSE <<ChMinus, ChGt>> \o WriteSubscript(raw.output.value))

\* Bounds of the strings the planner is run on with up to four tensors:
\* inputs, letters per subscript, distinct letters, letters of all inputs.
PlanInputs == 4

PlanLen == 2

PlanLetters == 3

PlanTotal == 5

RECURSIVE ConcatWords(_)
ConcatWords(ws) == IF ws = <<>> THEN <<>> ELSE Head(ws) \o ConcatWords(Tail(ws))

\* The letters of ws are a, b, .. in the order of their first appearance.
\* remap_indices makes every other string the planner is given into one of
\* these before the planner sees it.
FirstAppearance(ws) ==
    LET map == remap_update(ConcatWords(ws), <<>>)
    IN  \A c \in DOMAIN map : map[c] = c

PlanWords == WordsOver(ChA..(ChA + PlanLetters - 1), PlanLen) \ {<<>>}

PlanInputsOk(ws) == Len(ConcatWords(ws)) <= PlanTotal /\ FirstAppearance(ws)

\* Outputs of distinct letters of the inputs, or none (implicit mode).
PlanOutputs(ws) ==
    {None} \cup
    {Some(Indices(w)) : w \in {v \in WordsOver(Range(ConcatWords(ws)), PlanLen) :
                                  \A i, j \in 1..Len(v) : i # j => v[i] # v[j]}}

RECURSIVE IndicesAll(_)
IndicesAll(ws) == IF ws = <<>> THEN <<>> ELSE <<Indices(Head(ws))>> \o IndicesAll(Tail(ws))

\* Bound of the arbitrary strings the parser is run on, and their characters:
\* two letters, the characters of the grammar, and one that is in no rule.
MaxChars == 5

ParseChars == {ChA, ChA + 1, ChComma, ChMinus, ChGt, ChDot, ChSpace, ChUnderscore}

(***************************************************************************)
(* The program                                                             *)
(***************************************************************************)
Start ==
    /\ pc = "start"
    /\ parsed = None
    /\ names = Namespace_init
    /\ original = None
    /\ subs = None
    /\ self = None
    /\ inners = {}
    /\ inner = None
    /\ steps = <<>>
    /\ path = <<>>
    /\ shapes = <<>>
    /\ result = None
    /\ spaces = <<Namespace_init>>
    /\ issued = <<<<>>>>
    /\ cloned = <<None>>
    /\ ident = <<>>
    /\ args = 0
    /\ expansion = None

\* Well-formed strings of up to MaxInputs subscripts.
Init ==
    /\ \E n \in 1..MaxInputs :
          \E ins \in [1..n -> RawSubscriptSet], out \in RawOutputSet :
              indices = WriteSubscripts(RawSubscripts(ins, out))
    /\ Start

\* Canonical strings of up to PlanInputs subscripts.
InitPlan ==
    /\ \E n \in 1..PlanInputs :
          \E ws \in [1..n -> PlanWords] :
              /\ PlanInputsOk(ws)
              /\ \E out \in PlanOutputs(ws) :
                    indices = WriteSubscripts(RawSubscripts(IndicesAll(ws), out))
    /\ Start

\* Arbitrary strings of up to MaxChars characters.
InitParse ==
    /\ \E n \in 0..MaxChars : indices \in [1..n -> ParseChars]
    /\ Start

\* RawSubscripts::from_str(indices)
FromStr ==
    /\ pc = "start"
    /\ parsed' = from_str(indices)
    /\ pc' = "parsed"
    /\ UNCHANGED <<indices, names, original, subs, self, inners, inner, steps, path, shapes, result, spaces, issued, cloned, ident, args, expansion>>

FromRawIndicesDo(r) ==
    /\ names' = r.names
    /\ subs' = r.value
    /\ original' = IF r.ok THEN r.value ELSE None
    /\ pc' = IF r.ok THEN "subs" ELSE "error"

\* let mut names = Namespace::init();
\* Subscripts::from_raw_indices(&mut names, indices)
FromRawIndices ==
    /\ pc = "start"
    /\ FromRawIndicesDo(from_raw_indices(Namespace_init, indices))
    /\ UNCHANGED <<indices, parsed, self, inners, inner, steps, path, shapes, result, spaces, issued, cloned, ident, args, expansion>>

\* The factorizations made so far are ones brute_force_work makes.
PlannerSplit == self # None => pos_ok(inners, Len(self.inputs))

Positions(ss) == {ss.inputs[i].position : i \in 1..Len(ss.inputs)}

FactorizeDo(f) ==
    /\ inner' = f.inner
    /\ subs' = f.outer
    /\ names' = f.names
    /\ steps' = Append(steps, f.inner)

\* subs.factorize(&mut names, pos)
Factorize(pos) ==
    /\ self' = subs
    /\ inners' = pos
    /\ FactorizeDo(factorize(subs, names, pos))
    /\ pc' = "fact"
    /\ UNCHANGED <<indices, parsed, original, path, shapes, result, spaces, issued, cloned, ident, args, expansion>>

\* factorize is public: a caller gives it any set of positions of the inputs.
\* On the outer part of a factorization it is called again by the planner,
\* with the sets the planner enumerates.
FactorizeAny ==
    /\ pc \in {"subs", "fact"}
    /\ \E pos \in SUBSET Positions(subs) :
           /\ pc = "fact" => PlannerSplit /\ pos_ok(pos, Len(subs.inputs))
           /\ Factorize(pos)

\* brute_force_work(&mut names, outer), the call made for one candidate
BruteForceWork ==
    /\ pc = "fact"
    /\ PlannerSplit
    /\ path' = brute_force_work(names, subs)
    /\ names' = brute_force_names(names, subs)
    /\ pc' = "done"
    /\ UNCHANGED <<indices, parsed, original, subs, self, inners, inner, steps, shapes, result, spaces, issued, cloned, ident, args, expansion>>

PathBruteForceDo(r) ==
    /\ names' = IF r.ok THEN brute_force_names(r.names, r.value) ELSE r.names
    /\ subs' = r.value
    /\ original' = IF r.ok THEN r.value ELSE None
    /\ path' = IF r.ok THEN brute_force_work(r.names, r.value) ELSE <<>>
    /\ pc' = IF r.ok THEN "done" ELSE "error"

\* Path::brute_force(indices)
PathBruteForce ==
    /\ pc = "start"
    /\ PathBruteForceDo(from_raw_indices(Namespace_init, indices))
    /\ UNCHANGED <<indices, parsed, self, inners, inner, steps, shapes, result, spaces, issued, cloned, ident, args, expansion>>

RECURSIVE shapes_of(_, _)
\* The shapes of arrays whose axis labelled x has size sizes[x].
shapes_of(ins, sizes) ==
    IF ins = <<>> THEN <<>>
    ELSE <<size_tuple(IndicesOf(Head(ins)), sizes)>> \o shapes_of(Tail(ins), sizes)

KernelDo(shs) ==
    /\ shapes' = shs
    /\ result' = naive_inner(subs, arg_env(subs.inputs, shs, 1))

RECURSIVE ShapesFor(_)
\* The shapes of the arrays a caller can hand in: the rank of each is fixed
\* by the type of the argument, the sizes of the axes are free.
ShapesFor(ins) ==
    IF ins = <<>> THEN {<<>>}
    ELSE {<<sh>> \o rest : sh \in [1..Len(IndicesOf(Head(ins))) -> 1..MaxDim],
                           rest \in ShapesFor(Tail(ins))}

\* The function emitted for subs is called.
Kernel ==
    /\ pc = "subs"
    /\ \E shs \in ShapesFor(subs.inputs) : KernelDo(shs)
    /\ pc' = "ran"
    /\ UNCHANGED <<indices, parsed, names, original, subs, self, inners, inner, steps, path, spaces, issued, cloned, ident, args, expansion>>

Next ==
    \/ FromStr
    \/ FromRawIndices
    \/ FactorizeAny
    \/ BruteForceWork
    \/ PathBruteForce

Spec == Init /\ [][Next]_vars

SpecPlan == InitPlan /\ [][Next]_vars

\* "ij,jk->ik", the string of the matmul test
MatmulIndices == <<105, 106, ChComma, 106, 107, ChMinus, ChGt, 105, 107>>

\* "ii->i", the string of the diag test
DiagIndices == <<105, 105, ChMinus, ChGt, 105>>

\* Bound of the number of subscripts of the strings the emitted function is
\* run for.
KernelInputs == 3

\* Canonical strings of up to KernelInputs subscripts, and the strings of
\* the tests.
InitKernel ==
    /\ \/ \E n \in 1..KernelInputs :
             \E ws \in [1..n -> PlanWords] :
                 /\ PlanInputsOk(ws)
                 /\ \E out \in PlanOutputs(ws) :
                       indices = WriteSubscripts(RawSubscripts(IndicesAll(ws), out))
       \/ indices = MatmulIndices
       \/ indices = DiagIndices
    /\ Start

\* The planner and the emitted function of the unfactorized step.
NextKernel == FromRawIndices \/ Kernel \/ PathBruteForce

SpecKernel == InitKernel /\ [][NextKernel]_vars

\* "ab,bc->ac"
StrAbBcAc == <<ChA, ChA + 1, ChComma, ChA + 1, ChA + 2, ChMinus, ChGt, ChA, ChA + 2>>

\* "ab,bc"
StrAbBc == <<ChA, ChA + 1, ChComma, ChA + 1, ChA + 2>>

\* "a,a"
StrAA == <<ChA, ChComma, ChA>>

\* "ab...,bc...->ac..."
StrEllipsis ==
    <<ChA, ChA + 1, ChDot, ChDot, ChDot, ChComma, ChA + 1, ChA + 2, ChDot, ChDot, ChDot,
      ChMinus, ChGt, ChA, ChA + 2, ChDot, ChDot, ChDot>>

\* Bound of the number of subscripts of the strings identifiers are made for.
IdentInputs == 2

\* Strings of up to IdentInputs subscripts, and the strings of the tests of
\* escaped_ident.
InitIdent ==
    /\ \/ \E n \in 1..IdentInputs :
             \E ins \in [1..n -> RawSubscriptSet], out \in RawOutputSet :
                 indices = WriteSubscripts(RawSubscripts(ins, out))
       \/ indices \in {StrAbBcAc, StrAbBc, StrAA, StrEllipsis}
    /\ Start

\* v.escaped_ident(), for the value at hand or the inner part of the last
\* factorization
EscapedIdent ==
    /\ pc \in {"subs", "fact"}
    /\ \E v \in {subs} \cup (IF pc = "fact" THEN {inner} ELSE {}) :
          /\ subs' = v
          /\ ident' = escaped_ident(v)
    /\ pc' = "named"
    /\ UNCHANGED <<indices, parsed, names, original, self, inners, inner, steps, path,
                   shapes, result, spaces, issued, cloned, args, expansion>>

NextIdent == FromRawIndices \/ FactorizeAny \/ EscapedIdent

SpecIdent == InitIdent /\ [][NextIdent]_vars

\* Bound of the number of argument expressions.
MaxArgs == 4

\* abort_call_site!(message): compilation fails with the message, which is
\* a literal with nothing formatted into it, and nothing is emitted.
abort_call_site(message) ==
    [kind |-> "error", message |-> message, formatted |-> <<>>, emitted |-> <<>>]

\* n_each_ident(argc, i): the identifier n_{argc}_{i}
n_each_ident(argc, i) == <<110, ChUnderscore, 48 + argc, ChUnderscore, i>>

RECURSIVE each_idents(_, _)
\* n_index_each: one n_each_ident(argc, i) for every label i of the input.
each_idents(argc, cs) ==
    IF cs = <<>> THEN <<>>
    ELSE <<n_each_ident(argc, Head(cs))>> \o each_idents(argc, Tail(cs))

RECURSIVE pre_requirements(_, _)
\* pre_requirements: the tuple pattern of `let (..) = arg{argc}.dim();` for
\* the arguments argc, argc + 1, ..
pre_requirements(ss, argc) ==
    IF argc >= Len(ss.inputs) THEN <<>>
    ELSE <<each_idents(argc, IndicesOf(ss.inputs[argc + 1]))>> \o pre_requirements(ss, argc + 1)

\* quote! { { .. } }: the block the macro call is replaced by.
einsum2_quote(ss) ==
    [kind |-> "tokens", message |-> "", formatted |-> <<>>,
     emitted |-> <<escaped_ident(ss), contraction(ss), pre_requirements(ss, 0)>>]

\* einsum2 after the subscripts are read.
einsum2_with(r, n) ==
    IF ~r.ok THEN abort_call_site("Invalid subscripts")
    ELSE IF Len(r.value.inputs) # n THEN abort_call_site("Argument number mismatch")
    ELSE einsum2_quote(r.value)

\* einsum2: the expansion of einsum!(indices, a_1, .., a_n).
einsum2(str, n) == einsum2_with(from_raw_indices(Namespace_init, str), n)

\* einsum!(indices, a_1, .., a_n) is expanded.
Einsum ==
    /\ pc = "start"
    /\ \E n \in 0..MaxArgs :
          /\ args' = n
          /\ expansion' = einsum2(indices, n)
    /\ FromRawIndicesDo(from_raw_indices(Namespace_init, indices))
    /\ UNCHANGED <<indices, parsed, self, inners, inner, steps, path, shapes, result,
                   spaces, issued, cloned, ident>>

\* The macro alone, on the strings the emitted function is run for.
NextEntry == Einsum

SpecEntry == InitKernel /\ [][NextEntry]_vars

\* Bounds of the number of Namespace instances and of the counter.
MaxSpaces == 3
MaxIdents == 4

\* One Namespace made by init, no string.
InitNames == indices = <<>> /\ Start

NewIdentDo(i, r) ==
    /\ spaces' = [spaces EXCEPT ![i] = r.names]
    /\ issued' = [issued EXCEPT ![i] = Append(@, r.pos)]

\* spaces[i].new_ident()
NewIdent ==
    /\ \E i \in 1..Len(spaces) :
          /\ spaces[i].last < MaxIdents
          /\ NewIdentDo(i, new_ident(spaces[i]))
    /\ UNCHANGED <<indices, pc, parsed, names, original, subs, self, inners, inner, steps, path,
                   shapes, result, cloned, ident, args, expansion>>

\* spaces[i].clone()
Clone ==
    /\ Len(spaces) < MaxSpaces
    /\ \E i \in 1..Len(spaces) :
          /\ spaces' = Append(spaces, clone(spaces[i]))
          /\ cloned' = Append(cloned, [from |-> i, at |-> spaces[i].last])
    /\ issued' = Append(issued, <<>>)
    /\ UNCHANGED <<indices, pc, parsed, names, original, subs, self, inners, inner, steps, path,
                   shapes, result, ident, args, expansion>>

NextNames == NewIdent \/ Clone

SpecNames == InitNames /\ [][NextNames]_vars

\* The parser alone, on arbitrary strings.
NextParse == FromStr

SpecParse == InitParse /\ [][NextParse]_vars

(***************************************************************************)
(* The driver block                                                        *)
(***************************************************************************)
RECURSIVE positions_of(_)
\* #(#args),* : every Subscript is written as its position.
positions_of(ins) ==
    IF ins = <<>> THEN <<>> ELSE <<Head(ins).position>> \o positions_of(Tail(ins))

\* A statement that binds every result to the output of the whole.
to_tokens_out0(ss) ==
    [kind |-> "let", out |-> Out(0), fn_name |-> escaped_ident(ss),
     args |-> positions_of(ss.inputs)]

\* impl ToTokens for Subscripts: `let #out = #fn_name(#(#args),*);`
to_tokens(ss) ==
    [kind |-> "let", out |-> ss.output.position, fn_name |-> escaped_ident(ss),
     args |-> positions_of(ss.inputs)]

RECURSIVE dims_of(_)
\* dim(ss.indices().len()) of every input: Ix0, Ix1, ..
dims_of(ins) ==
    IF ins = <<>> THEN <<>> ELSE <<Len(IndicesOf(Head(ins)))>> \o dims_of(Tail(ins))

\* function_definition(subscripts, naive::inner(subscripts)): the name, the
\* parameters with the rank of each, the rank of the result and the body.
function_definition(ss) ==
    [fn_name |-> escaped_ident(ss),
     args |-> positions_of(ss.inputs),
     dims |-> dims_of(ss.inputs),
     out_dim |-> Len(IndicesOf(ss.output)),
     inner |-> contraction(ss)]

RECURSIVE fn_defs(_, _)
\* The definitions of the driver block: one for every escaped_ident() of the
\* steps, made for the first step that has it.
fn_defs(p, defined) ==
    IF p = <<>> THEN <<>>
    ELSE IF escaped_ident(Head(p)) \in defined THEN fn_defs(Tail(p), defined)
    ELSE <<function_definition(Head(p))>>
             \o fn_defs(Tail(p), defined \cup {escaped_ident(Head(p))})

RECURSIVE driver_calls(_)
\* #(#path)* : the statement of every step, in the order of the steps.
driver_calls(p) ==
    IF p = <<>> THEN <<>> ELSE <<to_tokens(Head(p))>> \o driver_calls(Tail(p))

\* The driver block emitted for a plan.
driver(p) == [kind |-> "driver", defs |-> fn_defs(p, {}), calls |-> driver_calls(p)]

\* "ab,bc,cd->ad"
StrAbBcCdAd ==
    <<ChA, ChA + 1, ChComma, ChA + 1, ChA + 2, ChComma, ChA + 2, ChA + 3,
      ChMinus, ChGt, ChA, ChA + 3>>

\* "ab,bc,cd,d->a", the string of test::brute_force_ab_bc_cd_d
StrAbBcCdDA ==
    <<ChA, ChA + 1, ChComma, ChA + 1, ChA + 2, ChComma, ChA + 2, ChA + 3, ChComma,
      ChA + 3, ChMinus, ChGt, ChA>>

\* "ji", an implicit string whose letters are not in the order of the alphabet
StrJi == <<106, 105>>

\* The strings the planner is run on, and the strings of its tests.
InitDriver ==
    /\ \/ \E n \in 1..PlanInputs :
             \E ws \in [1..n -> PlanWords] :
                 /\ PlanInputsOk(ws)
                 /\ \E out \in PlanOutputs(ws) :
                       indices = WriteSubscripts(RawSubscripts(IndicesAll(ws), out))
       \/ indices \in {StrAbBcAc, StrAbBcCdAd, StrAbBcCdDA, StrJi, MatmulIndices}
    /\ Start

\* The driver block is emitted for the plan of indices.
Emit ==
    /\ pc = "done"
    /\ self = None
    /\ expansion' = driver(path)
    /\ pc' = "emitted"
    /\ UNCHANGED <<indices, parsed, names, original, subs, self, inners, inner, steps, path,
                   shapes, result, spaces, issued, cloned, ident, args>>

\* The planner and the emitter.
NextDriver == PathBruteForce \/ Emit

SpecDriver == InitDriver /\ [][NextDriver]_vars

(***************************************************************************)
(* Notions the properties are stated with                                  *)
(***************************************************************************)
\* The places <<input, axis>> of the inputs of ss.
InputSlots(ss) ==
    UNION {{<<i, k>> : k \in 1..Len(IndicesOf(ss.inputs[i]))} : i \in 1..Len(ss.inputs)}

\* How often index x occurs in the inputs of ss whose position is in pos.
Occurrences(ss, pos, x) ==
    Cardinality({p \in InputSlots(ss) :
                    /\ ss.inputs[p[1]].position \in pos
                    /\ IndicesOf(ss.inputs[p[1]])[p[2]] = x})

\* How often the output of t holds the index that ss calls x: the letters of
\* the two values are related through what they stood for originally.
OutputCount(t, ss, x) ==
    Cardinality({k \in 1..Len(IndicesOf(t.output)) :
                    t.origin[IndicesOf(t.output)[k]] = ss.origin[x]})

InputIndexSet(ss) == Range(InputLetters(ss.inputs))

(***************************************************************************)
(* C10                                                                     *)
(***************************************************************************)
\* C10: after self.factorize(names, inners), with i the number of occurrences
\* of an index in the inputs selected by inners and o the number in the other
\* inputs, the index is in the output of the inner step exactly once if
\* i = 1 or (i >= 2 and o > 0), and not at all otherwise; the output holds
\* nothing else.
C10_IntermediateIndices ==
    pc = "fact" =>
        /\ \A x \in InputIndexSet(self) :
              LET i == Occurrences(self, inners, x)
                  o == Occurrences(self, Positions(self) \ inners, x)
              IN  OutputCount(inner, self, x) =
                      IF i = 1 \/ (i >= 2 /\ o > 0) THEN 1 ELSE 0
        /\ \A k \in 1..Len(IndicesOf(inner.output)) :
              \E x \in InputIndexSet(self) :
                  inner.origin[IndicesOf(inner.output)[k]] = self.origin[x]

\* A factorization in which one index is repeated inside the selected inputs
\* and needed outside (kept) and another is repeated inside only (dropped).
C10_Witness ==
    /\ pc = "fact"
    /\ \E x, y \in InputIndexSet(self) :
          /\ Occurrences(self, inners, x) >= 2
          /\ Occurrences(self, Positions(self) \ inners, x) > 0
          /\ OutputCount(inner, self, x) = 1
          /\ Occurrences(self, inners, y) >= 2
          /\ Occurrences(self, Positions(self) \ inners, y) = 0
          /\ OutputCount(inner, self, y) = 0

(***************************************************************************)
(* C3                                                                      *)
(***************************************************************************)
\* The indices of ss, of its inputs and of its output.
AllIndexSet(ss) == InputIndexSet(ss) \cup Range(IndicesOf(ss.output))

\* The free indices of ss: those that are not contracted.
FreeIndices(ss) == AllIndexSet(ss) \ contraction_indices(ss)

\* What the letters cs of ss stood for originally.
OriginOf(ss, cs) == {ss.origin[c] : c \in cs}

\* The indices of the inner partition that an input outside it or the output
\* of ss still needs.
NeededOfInner(ss, pos) ==
    {x \in InputIndexSet(ss) :
        /\ Occurrences(ss, pos, x) >= 1
        /\ \/ Occurrences(ss, Positions(ss) \ pos, x) >= 1
           \/ x \in Range(IndicesOf(ss.output))}

\* C3: factorization soundness.  After (inner, outer) = self.factorize(P)
\* with 2 <= |P| < self.inputs.len(), up to the renaming of letters the free
\* indices of outer are those of self, and the output indices of inner are
\* the indices of the inner partition that occur in an input outside P or in
\* the output of self.
C3_FactorizationSound ==
    (pc = "fact" /\ pos_ok(inners, Len(self.inputs))) =>
        /\ OriginOf(subs, FreeIndices(subs)) = OriginOf(self, FreeIndices(self))
        /\ OriginOf(inner, Range(IndicesOf(inner.output)))
               = OriginOf(self, NeededOfInner(self, inners))

(***************************************************************************)
(* C7                                                                      *)
(***************************************************************************)
\* How often character c is written in the string str.
Written(str, c) == Cardinality({k \in 1..Len(str) : str[k] = c})

\* The string has no "->": implicit mode.
ImplicitMode(str) == Written(str, ChGt) = 0

\* The output of ss, each index named by the letter written for it.
OutputAsWritten(ss) ==
    [k \in 1..Len(IndicesOf(ss.output)) |-> ss.origin[IndicesOf(ss.output)[k]]]

\* C7: for a subscripts string without "->", the output from_raw synthesizes
\* holds exactly the indices written exactly once in the inputs, each once,
\* in the alphabetical order of the letters as written.
C7_ImplicitOutput ==
    (original # None /\ ImplicitMode(indices)) =>
        LET out == OutputAsWritten(original)
        IN  /\ \A k, l \in 1..Len(out) : k < l => out[k] < out[l]
            /\ Range(out) = {c \in ChA..ChZ : Written(indices, c) = 1}

\* The string "ba" has become ab->ba: the output is in the order of the
\* written letters, not of the canonical ones.
C7_Witness ==
    /\ original # None
    /\ ImplicitMode(indices)
    /\ indices = <<ChA + 1, ChA>>
    /\ IndicesOf(original.inputs[1]) = <<ChA, ChA + 1>>
    /\ IndicesOf(original.output) = <<ChA + 1, ChA>>

(***************************************************************************)
(* C4                                                                      *)
(***************************************************************************)
\* The consistent relabelings of the index letters: the injections of the
\* letters into an alphabet with one more letter.
Relabelings ==
    {f \in [Letters -> ChA..(ChA + NumLetters)] :
        \A c, d \in Letters : c # d => f[c] # f[d]}

RECURSIVE Relabel(_, _)
\* The string str with every index letter c written f[c].
Relabel(str, f) ==
    IF str = <<>> THEN <<>>
    ELSE <<IF Head(str) \in DOMAIN f THEN f[Head(str)] ELSE Head(str)>>
             \o Relabel(Tail(str), f)

\* Equality of Subscripts values (inputs and output).
SameSubscripts(x, y) == x.inputs = y.inputs /\ x.output = y.output

\* from_raw_indices of the relabelled string, with a fresh namespace, returns
\* the value it returned for the string itself.
RelabelledEqual(f) ==
    SameSubscripts(from_raw_indices(Namespace_init, Relabel(indices, f)).value, original)

\* f keeps the alphabetical order of the letters written once in the string.
KeepsOrderOfOnce(f) ==
    \A c, d \in Letters :
        (Written(indices, c) = 1 /\ Written(indices, d) = 1 /\ c < d) => f[c] < f[d]

\* C4 as stated: two strings that differ by a consistent relabeling of the
\* index letters give equal Subscripts, in explicit and in implicit mode.
C4_AnyMode ==
    pc = "subs" => \A f \in Relabelings : RelabelledEqual(f)

\* C4, amended: in explicit mode every consistent relabeling gives an equal
\* Subscripts; in implicit mode a relabeling does so exactly when it keeps
\* the alphabetical order of the letters that occur once.
C4_CanonicalEquivalence ==
    pc = "subs" =>
        \A f \in Relabelings :
            IF ImplicitMode(indices)
            THEN RelabelledEqual(f) <=> KeepsOrderOfOnce(f)
            ELSE RelabelledEqual(f)

\* An implicit string with two letters written once, a relabeling that moves
\* both and keeps their order, and one that swaps their order.
C4_Witness ==
    /\ pc = "subs"
    /\ ImplicitMode(indices)
    /\ Written(indices, ChA) = 1
    /\ Written(indices, ChA + 1) = 1
    /\ \E f \in Relabelings : f[ChA] # ChA /\ KeepsOrderOfOnce(f) /\ RelabelledEqual(f)
    /\ \E f \in Relabelings : f[ChA] > f[ChA + 1] /\ ~RelabelledEqual(f)

(***************************************************************************)
(* C5                                                                      *)
(*                                                                         *)
(* The grammar, read as a grammar: each rule maps a set of strings still   *)
(* to be read to the set of what can be left of them after the rule.       *)
(***************************************************************************)
RECURSIVE LeadingSpace(_)
LeadingSpace(r) ==
    IF r # <<>> /\ is_multispace(Head(r)) THEN 1 + LeadingSpace(Tail(r)) ELSE 0

\* Any amount of whitespace.
SpaceRule(R) == UNION {{SubSeq(r, k, Len(r)) : k \in 1..(LeadingSpace(r) + 1)} : r \in R}

\* index = `a` | .. | `z`
IndexRule(R) == {Tail(r) : r \in {x \in R : x # <<>> /\ is_ascii_lowercase(Head(x))}}

\* The terminal t.
TagRule(R, t) ==
    {SubSeq(r, Len(t) + 1, Len(r)) :
        r \in {x \in R : Len(x) >= Len(t) /\ SubSeq(x, 1, Len(t)) = t}}

RECURSIVE IndicesRule(_)
\* { index }, whitespace allowed before each
IndicesRule(R) ==
    LET more == R \cup IndexRule(SpaceRule(R))
    IN  IF more = R THEN R ELSE IndicesRule(more)

\* [ `...` { index } ] after the first indices
EllipsisRule(R) == IndicesRule(SpaceRule(TagRule(SpaceRule(R), <<ChDot, ChDot, ChDot>>)))

\* subscript = { index } [ `...` { index } ]
SubscriptRule(R) == IndicesRule(R) \cup EllipsisRule(IndicesRule(R))

RECURSIVE ListRule(_)
\* { `,` subscript }
ListRule(R) ==
    LET more == R \cup SubscriptRule(TagRule(SpaceRule(R), <<ChComma>>))
    IN  IF more = R THEN R ELSE ListRule(more)

\* [ `->` subscript ]
ArrowRule(R) == R \cup SubscriptRule(SpaceRule(TagRule(SpaceRule(R), <<ChMinus, ChGt>>)))

\* subscripts = subscript { `,` subscript } [ `->` subscript ]
SubscriptsRule(R) == ArrowRule(ListRule(SubscriptRule(SpaceRule(R))))

\* The whole string is derivable from the grammar.
Derivable(str) == <<>> \in SubscriptsRule({str})

\* C5: from_str(s) is Ok only when the whole of s is derivable from the
\* grammar, and otherwise it is the error "Invalid subscripts: s".
C5_ErrorUnlessDerivable ==
    pc = "parsed" =>
        IF Derivable(indices) THEN parsed.ok
        ELSE parsed = Err("Invalid subscripts", indices)

(***************************************************************************)
(* C8                                                                      *)
(***************************************************************************)
SetMax(S) == CHOOSE x \in S : \A y \in S : y <= x

\* The key of a plan: the largest compute_order and the largest memory_order
\* of its steps.
PlanKey(p) ==
    <<SetMax({compute_order(p[i]) : i \in 1..Len(p)}),
      SetMax({memory_order(p[i]) : i \in 1..Len(p)})>>

\* Lexicographic order of keys.
KeyLeq(k1, k2) == k1[1] < k2[1] \/ (k1[1] = k2[1] /\ k1[2] <= k2[2])

\* The inputs that the bits of m select: bit i selects input i.
MaskInputs(ss, m) ==
    {ss.inputs[i].position : i \in {j \in 1..Len(ss.inputs) : (m \div (2 ^ (j - 1))) % 2 = 1}}

\* The plan enumerated for mask m: the inner step of the factorization, then
\* the plan of the outer part; no plan (the empty sequence) when the mask
\* selects fewer than two inputs or all of them.
PlanOfMask(ss, ns, pos) ==
    IF Cardinality(pos) >= 2 /\ Cardinality(pos) < Len(ss.inputs)
    THEN <<factorize(ss, ns, pos).inner>>
             \o brute_force_work(factorize(ss, ns, pos).names, factorize(ss, ns, pos).outer)
    ELSE <<>>

RECURSIVE EnumeratedFrom(_, _, _)
\* What is enumerated for the masks m, m + 1, .., 2^n - 1, and then the
\* unfactorized plan.
EnumeratedFrom(ss, ns, m) ==
    IF m = 2 ^ Len(ss.inputs) THEN <<<<ss>>>>
    ELSE <<PlanOfMask(ss, ns, MaskInputs(ss, m))>> \o EnumeratedFrom(ss, ns, m + 1)

RECURSIVE KeysOf(_)
KeysOf(plans) ==
    IF plans = <<>> THEN <<>>
    ELSE <<IF Head(plans) = <<>> THEN <<>> ELSE PlanKey(Head(plans))>> \o KeysOf(Tail(plans))

\* The places of the enumeration that hold a plan.
Candidates(plans) == {k \in 1..Len(plans) : plans[k] # <<>>}

\* The first place whose key is least.
FirstLeast(plans, keys) ==
    CHOOSE k \in Candidates(plans) :
        /\ \A j \in Candidates(plans) : KeyLeq(keys[k], keys[j])
        /\ \A j \in Candidates(plans) : j < k => ~KeyLeq(keys[j], keys[k])

FirstLeastPlan(plans) == plans[FirstLeast(plans, KeysOf(plans))]

\* The unfactorized plan, enumerated last, has a key strictly less than every
\* other candidate.
LastStrictlyLeast(plans, keys) ==
    \A j \in Candidates(plans) \ {Len(plans)} : ~KeyLeq(keys[j], keys[Len(plans)])

\* C8: a call of brute_force_work with more than two inputs returns the
\* first candidate, in the order of the masks ascending with the
\* unfactorized plan last, whose key is least; it returns the unfactorized
\* plan only when that is strictly better than every factorized candidate.
C8_FirstLeastCandidate ==
    (pc = "done" /\ Len(subs.inputs) > 2) =>
        /\ path = FirstLeastPlan(EnumeratedFrom(subs, names, 0))
        /\ path = <<subs>> =>
               LastStrictlyLeast(EnumeratedFrom(subs, names, 0),
                                 KeysOf(EnumeratedFrom(subs, names, 0)))

\* Two different candidates tie for the least key and the earlier is returned.
TieWonByFirst(plans, keys) ==
    \E j, k \in Candidates(plans) :
        /\ j < k
        /\ keys[j] = keys[k]
        /\ plans[j] # plans[k]
        /\ \A l \in Candidates(plans) : KeyLeq(keys[j], keys[l])
        /\ path = plans[j]

C8_Witness ==
    /\ pc = "done"
    /\ Len(subs.inputs) > 3
    /\ TieWonByFirst(EnumeratedFrom(subs, names, 0), KeysOf(EnumeratedFrom(subs, names, 0)))

(***************************************************************************)
(* C9                                                                      *)
(***************************************************************************)
\* Path::brute_force has returned (and not a call on an outer part).
Planned == pc = "done" /\ self = None

\* The positions of the inputs of step k of the plan p.
InputPositions(p, k) == {p[k].inputs[i].position : i \in 1..Len(p[k].inputs)}

\* C9: the plan Path::brute_force returns is not empty; the output of its
\* last step is at Out(0) and has the indices of the original output, as
\* many and in the same axis order; the output position of every step but
\* the last is an input position of a strictly later step.
C9_PathShape ==
    Planned =>
        /\ Len(path) >= 1
        /\ Last(path).output.position = Out(0)
        /\ OutputAsWritten(Last(path)) = OutputAsWritten(original)
        /\ \A k \in 1..(Len(path) - 1) :
              \E l \in (k + 1)..Len(path) : path[k].output.position \in InputPositions(path, l)

\* A plan of three steps whose output has two axes that are not in
\* alphabetical order.
C9_Witness ==
    /\ Planned
    /\ Len(path) = 3
    /\ Len(OutputAsWritten(original)) = 2
    /\ OutputAsWritten(original)[1] > OutputAsWritten(original)[2]
    /\ OutputAsWritten(Last(path)) = OutputAsWritten(original)

(***************************************************************************)
(* C2                                                                      *)
(***************************************************************************)
\* The sets of inputs a factorization may select: at least two, not all.
ValidSplits(ss) ==
    {pos \in SUBSET Positions(ss) :
        Cardinality(pos) >= 2 /\ Cardinality(pos) < Len(ss.inputs)}

RECURSIVE AllPlans(_, _)
\* The plans that begin with the inner step of the factorization f.
PlansThrough(f) == {<<f.inner>> \o p : p \in AllPlans(f.outer, f.names)}

\* Every plan obtainable by recursive factorization: stop unfactorized, or
\* select any valid set of inputs and plan the outer part in any such way.
AllPlans(ss, ns) ==
    {<<ss>>} \cup UNION {PlansThrough(factorize(ss, ns, pos)) : pos \in ValidSplits(ss)}

SizeOfIndex(ss, shs, x) ==
    shs[(CHOOSE p \in InputSlots(ss) : IndicesOf(ss.inputs[p[1]])[p[2]] = x)[1]]
       [(CHOOSE p \in InputSlots(ss) : IndicesOf(ss.inputs[p[1]])[p[2]] = x)[2]]

\* The value of index x where the element t of the output is computed and
\* every contraction index has its last value.
LastValue(ss, shs, t, x) ==
    IF x \in Range(IndicesOf(ss.output))
    THEN t[CHOOSE k \in 1..Len(IndicesOf(ss.output)) : IndicesOf(ss.output)[k] = x]
    ELSE SizeOfIndex(ss, shs, x) - 1

\* The one product of input elements taken there.
LastProduct(ss, shs, t) ==
    SetToBag({SetToBag({<<ss.inputs[i].position,
                          [k \in 1..Len(IndicesOf(ss.inputs[i])) |->
                              LastValue(ss, shs, t, IndicesOf(ss.inputs[i])[k])]>> :
                        i \in 1..Len(ss.inputs)})})

\* The assignments of values below their sizes to the indices xs.
IndexValues(xs, n) == {c \in [xs -> 0..(MaxDim - 1)] : \A x \in xs : c[x] < n[x]}

RECURSIVE SumOver(_, _, _, _)
\* The sum of the products of the input elements over the assignments cs.
SumOver(cs, ss, env, idx) ==
    IF cs = {} THEN Zero
    ELSE Add(inner_mul(Tail(ss.inputs), (CHOOSE c \in cs : TRUE) @@ idx, env,
                       inner_arg(Head(ss.inputs), (CHOOSE c \in cs : TRUE) @@ idx, env)),
             SumOver(cs \ {CHOOSE c \in cs : TRUE}, ss, env, idx))

\* The values of the output indices at the element t of the output.
OutputValues(ss, t) ==
    [x \in Range(IndicesOf(ss.output)) |->
        t[CHOOSE k \in 1..Len(IndicesOf(ss.output)) : IndicesOf(ss.output)[k] = x]]

IsError(r) == "error" \in DOMAIN r

SumEinsumWith(ss, env, n) ==
    IF ~(Range(IndicesOf(ss.output)) \subseteq DOMAIN n) THEN [error |-> "unbound"]
    ELSE Tensor(size_tuple(IndicesOf(ss.output), n),
                [t \in IndexTuples(size_tuple(IndicesOf(ss.output), n)) |->
                    SumOver(IndexValues(contraction_indices(ss), n), ss, env,
                            OutputValues(ss, t))])

\* ss read as an einsum: every element of the output is the sum, over the
\* contraction indices, of the products of the input elements.  It has no
\* value when an input has none, when the size of an output index is unknown
\* or when an index of an input is neither kept nor summed over.
SumEinsum(ss, env) ==
    IF \/ \E i \in 1..Len(ss.inputs) : IsError(env[ss.inputs[i].position])
       \/ ~(InputIndexSet(ss) \subseteq Range(IndicesOf(ss.output)) \cup contraction_indices(ss))
    THEN [error |-> "unbound"]
    ELSE SumEinsumWith(ss, env, define_array_size(ss.inputs, env, <<>>))

RECURSIVE ValueOfProduct(_)
\* The value of a product of elements of the matrix [[1, 2], [3, 4]].
ValueOfProduct(m) ==
    IF DOMAIN m = {} THEN 1
    ELSE LET a == CHOOSE a \in DOMAIN m : TRUE
         IN  (2 * a[2][1] + a[2][2] + 1)
                 * ValueOfProduct(IF m[a] = 1 THEN [b \in DOMAIN m \ {a} |-> m[b]]
                                  ELSE [m EXCEPT ![a] = @ - 1])

RECURSIVE ValueOf(_)
\* The value of an element when both arguments are [[1, 2], [3, 4]].
ValueOf(p) ==
    IF DOMAIN p = {} THEN 0
    ELSE LET m == CHOOSE m \in DOMAIN p : TRUE
         IN  p[m] * ValueOfProduct(m) + ValueOf([q \in DOMAIN p \ {m} |-> p[q]])

\* einsum!("ij,jk->ik", a, b) was run on two 2 x 2 matrices.
MatmulRan ==
    /\ pc = "ran"
    /\ indices = MatmulIndices
    /\ shapes = <<<<2, 2>>, <<2, 2>>>>

\* C6: the statement of the emitted loops assigns (=), so every element of
\* the output ends up as the single product of the input elements taken with
\* every contraction index at its last value n_x - 1; where a contraction
\* index runs over more than one value this is not the sum over the
\* contraction indices; einsum!("ij,jk->ik", a, b) with a = b = [[1, 2],
\* [3, 4]] gives [[6, 8], [12, 16]].
C6_LastIterationProduct ==
    /\ (pc = "ran" /\ ~IsError(result)) =>
          /\ \A t \in IndexTuples(result.shape) :
                result.data[t] = LastProduct(subs, shapes, t)
          /\ (\E x \in contraction_indices(subs) : SizeOfIndex(subs, shapes, x) > 1) =>
                result # SumEinsum(subs, arg_env(subs.inputs, shapes, 1))
    /\ MatmulRan =>
          [t \in IndexTuples(result.shape) |-> ValueOf(result.data[t])]
              = (<<0, 0>> :> 6) @@ (<<0, 1>> :> 8) @@ (<<1, 0>> :> 12) @@ (<<1, 1>> :> 16)

\* The matmul test has run: the result is the last products, not the matrix
\* product [[7, 10], [15, 22]].
C6_Witness ==
    /\ MatmulRan
    /\ ~IsError(result)
    /\ ValueOf(result.data[<<0, 0>>]) = 6
    /\ ValueOf(SumEinsum(subs, arg_env(subs.inputs, shapes, 1)).data[<<0, 0>>]) = 7

(***************************************************************************)
(* C1                                                                      *)
(***************************************************************************)
\* Each output index occurs in some input and each other index occurs at
\* least twice across the inputs.
WellFormed(ss) ==
    /\ Range(IndicesOf(ss.output)) \subseteq InputIndexSet(ss)
    /\ \A x \in InputIndexSet(ss) \ Range(IndicesOf(ss.output)) :
          Occurrences(ss, {ss.inputs[i].position : i \in 1..Len(ss.inputs)}, x) >= 2

RECURSIVE PathEinsum(_, _)
\* The steps evaluated in order, each read as an einsum, the result of a
\* step stored at the position of its output.
PathEinsum(p, env) ==
    IF p = <<>> THEN env
    ELSE PathEinsum(Tail(p), (Head(p).output.position :> SumEinsum(Head(p), env)) @@ env)

\* The steps of the plan compute what the original computes in one step.
PathComputes(ss, p, env) ==
    PathEinsum(p, env)[ss.output.position] = SumEinsum(ss, env)

\* C1: for every Subscripts S in which each output index occurs in some input
\* and each other index at least twice, and all arrays of consistent shape,
\* evaluating the steps of Path::brute_force(S) in order gives the array
\* that evaluating S as one step gives.
C1_PathComputesOriginal ==
    (Planned /\ WellFormed(original)) =>
        \A sizes \in [InputIndexSet(original) -> 1..MaxDim] :
            PathComputes(original, path,
                         arg_env(original.inputs, shapes_of(original.inputs, sizes), 1))

(***************************************************************************)
(* C11                                                                     *)
(***************************************************************************)
\* Subscript x of t is subscript y of ss with the indices renamed: the same
\* position, the same form, and at every place the letter that stands for
\* the same original index.
SameInput(t, x, ss, y) ==
    /\ x.position = y.position
    /\ x.raw.kind = y.raw.kind
    /\ Len(x.raw.start) = Len(y.raw.start)
    /\ Len(x.raw.end) = Len(y.raw.end)
    /\ \A k \in 1..Len(IndicesOf(x)) :
          t.origin[IndicesOf(x)[k]] = ss.origin[IndicesOf(y)[k]]

\* The inputs of ss whose position is in pos (or is not, when `in` is FALSE),
\* in their order in ss.
Selected(ss, pos, in) ==
    LET Keep(x) == (x.position \in pos) = in IN SelectSeq(ss.inputs, Keep)

\* The inputs xs of t are the inputs ys of ss, in the same order.
SameInputs(t, xs, ss, ys) ==
    /\ Len(xs) = Len(ys)
    /\ \A k \in 1..Len(xs) : SameInput(t, xs[k], ss, ys[k])

\* What a call subs.factorize(&mut names, inners') leaves behind.
FactorizeResult ==
    /\ SameInputs(inner', inner'.inputs, subs, Selected(subs, inners', TRUE))
    /\ SameInputs(subs', Tail(subs'.inputs), subs, Selected(subs, inners', FALSE))
    /\ inner'.output.position = Out(names.last)
    /\ Head(subs'.inputs).position = Out(names.last)
    /\ names'.last = names.last + 1
    /\ subs'.output.position = subs.output.position
    /\ self' = subs

\* C11: factorize(names, inners) returns (inner, outer) where the inputs of
\* inner are the inputs of self whose position is in inners, in their order
\* and at their positions; the inputs of outer are the intermediate and then
\* the other inputs in their order; the output of inner and the first input
\* of outer are at the same fresh Out(k) taken from names, whose counter
\* advances by one; the output of outer is at the position of the output of
\* self; self is unchanged.
C11_FactorizeResult == [][pc' = "fact" => FactorizeResult]_vars

\* A factorization that selects two inputs that are not neighbours.
C11_Witness ==
    /\ pc = "fact"
    /\ names.last = 2
    /\ Len(inner.inputs) = 2
    /\ Len(subs.inputs) = 2
    /\ \E i, j \in 1..Len(self.inputs) :
          /\ j > i + 1
          /\ inners = {self.inputs[i].position, self.inputs[j].position}

(***************************************************************************)
(* C12                                                                     *)
(***************************************************************************)
\* The letters of ss as a scan meets them: the inputs in order, then the
\* output, an ellipsis giving its start and then its end.
Scan(ss) == InputLetters(ss.inputs) \o IndicesOf(ss.output)

\* The letters met before place p of the scan cs.
SeenBefore(cs, p) == {cs[q] : q \in 1..(p - 1)}

\* The k-th distinct letter met is the k-th letter of the alphabet, and so
\* the letters used are the first m letters.
IsCanonical(ss) ==
    /\ \A p \in 1..Len(Scan(ss)) :
          \/ Scan(ss)[p] \in SeenBefore(Scan(ss), p)
          \/ Scan(ss)[p] = ChA + Cardinality(SeenBefore(Scan(ss), p))
    /\ Range(Scan(ss)) = ChA..(ChA + Cardinality(Range(Scan(ss))) - 1)

\* C12: every Subscripts value produced by from_raw or by factorize (inner
\* and outer) is in canonical form: scanning its inputs in order and then its
\* output, the k-th distinct index letter met is the k-th letter of the
\* alphabet, and the letters used are exactly the first m letters.
C12_CanonicalForm ==
    /\ pc = "subs" => IsCanonical(subs)
    /\ pc = "fact" => IsCanonical(inner) /\ IsCanonical(subs)

\* A factorization whose receiver was relabelled by from_raw and whose inner
\* part was relabelled again.
C12_Witness ==
    /\ pc = "fact"
    /\ IsCanonical(inner)
    /\ IsCanonical(subs)
    /\ \E c \in DOMAIN self.origin : self.origin[c] # c
    /\ \E c \in DOMAIN inner.origin, d \in DOMAIN self.origin :
          inner.origin[c] = self.origin[d] /\ c # d
    /\ Cardinality(Range(Scan(subs))) = 2

(***************************************************************************)
(* C13                                                                     *)
(***************************************************************************)
\* The indices that occur at least twice across the inputs of ss, repeats
\* inside one input counted, and not in its output.
Contracted(ss) ==
    {x \in InputIndexSet(ss) :
        /\ Occurrences(ss, Positions(ss), x) >= 2
        /\ x \notin Range(IndicesOf(ss.output))}

\* "ab,ba->"
StrAbBa == <<ChA, ChA + 1, ChComma, ChA + 1, ChA, ChMinus, ChGt>>

\* "aa->a"
StrAaA == <<ChA, ChA, ChMinus, ChGt, ChA>>

\* C13: contraction_indices() is exactly the set of indices that occur at
\* least twice across all inputs (repeats inside one input counted) and do
\* not occur in the output: {b} for ab,bc->ac, {a, b} for ab,ba-> and the
\* empty set for aa->a.
C13_ContractionIndices ==
    pc \in {"subs", "ran", "done"} =>
        /\ contraction_indices(subs) = Contracted(subs)
        /\ indices = StrAbBcAc => contraction_indices(subs) = {ChA + 1}
        /\ indices = StrAbBa => contraction_indices(subs) = {ChA, ChA + 1}
        /\ indices = StrAaA => contraction_indices(subs) = {}

\* The planner has used the contraction indices of ab,ba->: both are
\* contracted, each occurring once in each input.
C13_Witness ==
    /\ pc = "done"
    /\ indices = StrAbBa
    /\ contraction_indices(subs) = {ChA, ChA + 1}
    /\ compute_order(subs) = 2

(***************************************************************************)
(* C14                                                                     *)
(***************************************************************************)
\* str with the character c inserted after its first p characters.
InsertAt(str, p, c) == SubSeq(str, 1, p) \o <<c>> \o SubSeq(str, p + 1, Len(str))

RECURSIVE LeftOf(_, _)
\* The last character of the first p characters of str that is not
\* whitespace, 0 if there is none.
LeftOf(str, p) ==
    IF p = 0 THEN 0
    ELSE IF is_multispace(str[p]) THEN LeftOf(str, p - 1)
    ELSE str[p]

RECURSIVE RightOf(_, _)
\* The first character after the first p characters of str that is not
\* whitespace, 0 if there is none.
RightOf(str, p) ==
    IF p >= Len(str) THEN 0
    ELSE IF is_multispace(str[p + 1]) THEN RightOf(str, p + 1)
    ELSE str[p + 1]

\* Whitespace may be put after the first p characters of str: at the start,
\* between two indices, before or after a `,`, `->` or `...`, and not inside
\* `->` or `...`.
SpacePlace(str, p) ==
    \/ LeftOf(str, p) = 0
    \/ is_ascii_lowercase(LeftOf(str, p)) /\ is_ascii_lowercase(RightOf(str, p))
    \/ /\ \/ LeftOf(str, p) \in {ChComma, ChGt, ChDot}
          \/ RightOf(str, p) \in {ChComma, ChMinus, ChDot}
       /\ ~(LeftOf(str, p) = ChMinus /\ RightOf(str, p) = ChGt)
       /\ ~(LeftOf(str, p) = ChDot /\ RightOf(str, p) = ChDot)

\* C14: for every well-formed subscripts string, inserting whitespace at the
\* start, between two indices, before or after a `,`, before or after `->`
\* or before or after `...` gives a string that parses to a RawSubscripts
\* equal to the one the string parses to.  The strings checked hold
\* whitespace already, so any amount of it is reached one character at a
\* time.
C14_WhitespaceIgnored ==
    (pc = "parsed" /\ Derivable(indices)) =>
        \A p \in 0..Len(indices) :
            SpacePlace(indices, p) =>
                \A c \in {ChSpace, ChTab, ChLF, ChCR} :
                    from_str(InsertAt(indices, p, c)) = parsed

\* "a,b->" has been parsed, and the string with whitespace at the start,
\* around the `,` and around the `->` parses to the same value.
C14_Witness ==
    /\ pc = "parsed"
    /\ indices = <<ChA, ChComma, ChA + 1, ChMinus, ChGt>>
    /\ parsed = Ok(RawSubscripts(<<Indices(<<ChA>>), Indices(<<ChA + 1>>)>>, Some(Indices(<<>>))))
    /\ from_str(<<ChSpace, ChA, ChTab, ChComma, ChLF, ChA + 1, ChCR, ChMinus, ChGt, ChSpace>>) = parsed

(***************************************************************************)
(* C15                                                                     *)
(***************************************************************************)
\* str without its whitespace.
NoSpace(str) == LET Solid(c) == ~is_multispace(c) IN SelectSeq(str, Solid)

\* The place of the first character c in str, 0 if there is none.
FirstOf(str, c) ==
    IF \E k \in 1..Len(str) : str[k] = c
    THEN CHOOSE k \in 1..Len(str) : str[k] = c /\ \A j \in 1..(k - 1) : str[j] # c
    ELSE 0

RECURSIVE Segments(_)
\* The segments of str between its commas, in order.
Segments(str) ==
    IF FirstOf(str, ChComma) = 0 THEN <<str>>
    ELSE <<SubSeq(str, 1, FirstOf(str, ChComma) - 1)>>
             \o Segments(SubSeq(str, FirstOf(str, ChComma) + 1, Len(str)))

\* The raw subscript a segment stands for.
SegmentRaw(seg) ==
    IF FirstOf(seg, ChDot) = 0 THEN Indices(seg)
    ELSE Ellipsis(SubSeq(seg, 1, FirstOf(seg, ChDot) - 1),
                  SubSeq(seg, FirstOf(seg, ChDot) + 3, Len(seg)))

\* The part of str before its "->", all of it if there is none.
BeforeArrow(str) ==
    IF FirstOf(str, ChMinus) = 0 THEN str ELSE SubSeq(str, 1, FirstOf(str, ChMinus) - 1)

\* The value the grammar gives a derivable string.
Reading(str) ==
    RawSubscripts(
        [k \in 1..Len(Segments(BeforeArrow(str))) |-> SegmentRaw(Segments(BeforeArrow(str))[k])],
        IF FirstOf(str, ChMinus) = 0 THEN None
        ELSE Some(SegmentRaw(SubSeq(str, FirstOf(str, ChMinus) + 2, Len(str)))))

\* C15: for every string derivable from the grammar, parse returns one input
\* raw subscript per comma-separated segment, in order and at least one; a
\* segment without `...` becomes Indices(its letters in order), a segment
\* start...end becomes Ellipsis{start, end}; the output is None exactly when
\* the string has no `->` and Some(subscript) otherwise, Some(Indices([]))
\* for an empty output.
C15_ParseResult ==
    (pc = "parsed" /\ Derivable(indices)) =>
        /\ parsed = Ok(Reading(NoSpace(indices)))
        /\ Len(parsed.value.inputs) >= 1
        /\ parsed.value.output = None <=> (\A k \in 1..Len(indices) : indices[k] # ChMinus)

\* ",a..." has been parsed: an empty segment and one with an ellipsis.
C15_Witness ==
    /\ pc = "parsed"
    /\ indices = <<ChComma, ChA, ChDot, ChDot, ChDot>>
    /\ parsed = Ok(RawSubscripts(<<Indices(<<>>), Ellipsis(<<ChA>>, <<>>)>>, None))

(***************************************************************************)
(* C16                                                                     *)
(***************************************************************************)
\* Slot p comes before slot q when the inputs are scanned in order.
SlotBefore(p, q) == p[1] < q[1] \/ (p[1] = q[1] /\ p[2] < q[2])

\* The slots of the inputs of ss labelled x.
SlotsOf(ss, x) == {p \in InputSlots(ss) : IndicesOf(ss.inputs[p[1]])[p[2]] = x}

\* The first slot labelled x.
FirstSlot(ss, x) ==
    CHOOSE p \in SlotsOf(ss, x) : \A q \in SlotsOf(ss, x) \ {p} : SlotBefore(p, q)

\* All axes labelled by the same index, across the inputs and inside one
\* input, have the same size.
SizesAgree(ss, shs) ==
    \A p, q \in InputSlots(ss) :
        IndicesOf(ss.inputs[p[1]])[p[2]] = IndicesOf(ss.inputs[q[1]])[q[2]]
            => shs[p[1]][p[2]] = shs[q[1]][q[2]]

\* The emitted function was called, and it is one that compiles.
Called == pc = "ran" /\ result # [error |-> "compile"]

\* C16: in the emitted function n_x is bound to the size of the first axis
\* labelled x met when the inputs are scanned in order, and every axis of
\* every input is compared with the n_x of its index; so the function
\* reaches the allocation of its output if and only if all axes labelled by
\* the same index have equal size, and otherwise it panics with no output
\* allocated or written.
C16_SizeAsserts ==
    Called =>
        /\ define_array_size(subs.inputs, arg_env(subs.inputs, shapes, 1), <<>>)
              = [x \in InputIndexSet(subs) |->
                    shapes[FirstSlot(subs, x)[1]][FirstSlot(subs, x)[2]]]
        /\ SizesAgree(subs, shapes) <=> ~IsError(result)
        /\ ~SizesAgree(subs, shapes) => result = [error |-> "panic"]
        /\ SizesAgree(subs, shapes) =>
              result.shape = [k \in 1..Len(IndicesOf(subs.output)) |->
                                 shapes[FirstSlot(subs, IndicesOf(subs.output)[k])[1]]
                                       [FirstSlot(subs, IndicesOf(subs.output)[k])[2]]]

\* A call that panics because the two axes of one input differ although the
\* first axis of every input has the size bound to its index.
C16_Witness ==
    /\ Called
    /\ result = [error |-> "panic"]
    /\ \A i \in 1..Len(subs.inputs) :
          IndicesOf(subs.inputs[i]) # <<>> =>
              FirstSlot(subs, IndicesOf(subs.inputs[i])[1]) = <<i, 1>>
    /\ \E i \in 1..Len(subs.inputs) :
          /\ Len(IndicesOf(subs.inputs[i])) = 2
          /\ IndicesOf(subs.inputs[i])[1] = IndicesOf(subs.inputs[i])[2]
          /\ shapes[i][1] # shapes[i][2]

(***************************************************************************)
(* C17                                                                     *)
(***************************************************************************)
RECURSIVE LoopVars(_)
\* The variables of the loops of tt, from the outermost to the innermost.
LoopVars(tt) == IF tt.kind = "for" THEN <<tt.index>> \o LoopVars(tt.body) ELSE <<>>

RECURSIVE Innermost(_)
\* What the innermost loop of tt holds.
Innermost(tt) == IF tt.kind = "for" THEN Innermost(tt.body) ELSE tt

RECURSIVE OverWholeAxis(_)
\* Every loop of tt runs its variable x over 0..n_x.
OverWholeAxis(tt) ==
    tt.kind = "for" => tt.lo = 0 /\ tt.n = tt.index /\ OverWholeAxis(tt.body)

\* The letters of cs ascend.
Ascending(cs) == \A i, j \in 1..Len(cs) : i < j => cs[i] < cs[j]

\* The loops after the first m are over the set S, in ascending order.
TailOver(vs, m, S) ==
    /\ Len(vs) = m + Cardinality(S)
    /\ Range(SubSeq(vs, m + 1, Len(vs))) = S
    /\ Ascending(SubSeq(vs, m + 1, Len(vs)))

\* C17: the loop nest emitted by contraction(subscripts) iterates, from the
\* outermost to the innermost loop, over the indices of the output in the
\* order of the output and then over the contraction indices in ascending
\* alphabetical order, each over 0..n_x, and the one assignment statement is
\* the body of the innermost loop; the loops are a, c, b for ab,bc->ac.
C17_LoopNest ==
    pc \in {"subs", "ran"} =>
        /\ SubSeq(LoopVars(contraction(subs)), 1, Len(IndicesOf(subs.output)))
              = IndicesOf(subs.output)
        /\ TailOver(LoopVars(contraction(subs)), Len(IndicesOf(subs.output)), Contracted(subs))
        /\ OverWholeAxis(contraction(subs))
        /\ Innermost(contraction(subs))
              = [kind |-> "assign", output |-> subs.output, args |-> subs.inputs]
        /\ indices = StrAbBcAc => LoopVars(contraction(subs)) = <<ChA, ChA + 2, ChA + 1>>

\* The function emitted for ab,bc->ac has run with the loops a, c, b around
\* the statement.
C17_Witness ==
    /\ pc = "ran"
    /\ indices = StrAbBcAc
    /\ ~IsError(result)
    /\ contraction(subs) =
          for_tt(ChA, for_tt(ChA + 2, for_tt(ChA + 1, contraction_inner(subs))))

(***************************************************************************)
(* C18                                                                     *)
(***************************************************************************)
\* The counter instance i started from: 0 for the one made by init, the
\* counter of its origin at the time for a clone.
StartOf(i) == IF cloned[i] = None THEN 0 ELSE cloned[i].at

\* C18: init() has counter 0; after any sequence of new_ident and clone
\* calls the k-th new_ident call (k = 0, 1, ..) on the instance made by init
\* returns Out(k); a clone continues from the counter it had when cloned;
\* the identifiers issued by one instance are pairwise distinct; and the
\* counter of an instance moves only by its own new_ident calls, never by
\* those on its clones or on the instance it was cloned from.
C18_Namespace ==
    /\ cloned[1] = None /\ StartOf(1) = 0
    /\ \A i \in 1..Len(spaces) :
          /\ \A k \in 1..Len(issued[i]) : issued[i][k] = Out(StartOf(i) + k - 1)
          /\ \A k, l \in 1..Len(issued[i]) : k # l => issued[i][k] # issued[i][l]
          /\ spaces[i].last = StartOf(i) + Len(issued[i])

\* A clone made after one call and its origin have both gone on: both have
\* issued Out(1), and the clone is one call ahead.
C18_Witness ==
    /\ Len(spaces) >= 2
    /\ cloned[2] = [from |-> 1, at |-> 1]
    /\ issued[1] = <<Out(0), Out(1)>>
    /\ issued[2] = <<Out(1), Out(2)>>
    /\ spaces[1].last = 2
    /\ spaces[2].last = 3

(***************************************************************************)
(* C19                                                                     *)
(***************************************************************************)
\* D of the claim: the letters in order, an ellipsis as three underscores.
Rendering(raw) ==
    [k \in 1..(Len(raw.start) + Len(raw.end) + (IF raw.kind = "Ellipsis" THEN 3 ELSE 0)) |->
        IF k <= Len(raw.start) THEN raw.start[k]
        ELSE IF raw.kind = "Ellipsis" /\ k <= Len(raw.start) + 3 THEN ChUnderscore
        ELSE raw.end[k - Len(raw.start) - (IF raw.kind = "Ellipsis" THEN 3 ELSE 0)]]

RECURSIVE RenderedInputs(_)
\* D(r1) '_' D(r2) '_' .. D(rn) '_'
RenderedInputs(ins) ==
    IF ins = <<>> THEN <<>>
    ELSE Rendering(Head(ins).raw) \o <<ChUnderscore>> \o RenderedInputs(Tail(ins))

\* ss with its subscripts at other positions.
Moved(ss) ==
    [ss EXCEPT !.inputs = [k \in 1..Len(ss.inputs) |->
                              Subscript(ss.inputs[k].raw, Out(k + Len(ss.inputs)))],
               !.output = Subscript(ss.output.raw, Arg(0))]

\* C19: escaped_ident() is D(r1) '_' D(r2) '_' .. D(rn) '_' '_' D(r0) for
\* the inputs r1..rn and the output r0, D giving the canonical letters in
\* order and an ellipsis as '___': ab_bc__ac for ab,bc->ac and for ab,bc,
\* a_a__ for a,a, ab____bc_____ac___ for ab...,bc...->ac...; it depends on
\* the raw subscripts only, not on the positions.
C19_EscapedIdent ==
    pc = "named" =>
        /\ ident = RenderedInputs(subs.inputs) \o <<ChUnderscore>> \o Rendering(subs.output.raw)
        /\ escaped_ident(Moved(subs)) = ident
        /\ (self = None /\ indices \in {StrAbBcAc, StrAbBc}) =>
              ident = <<ChA, ChA + 1, ChUnderscore, ChA + 1, ChA + 2, ChUnderscore,
                        ChUnderscore, ChA, ChA + 2>>
        /\ (self = None /\ indices = StrAA) =>
              ident = <<ChA, ChUnderscore, ChA, ChUnderscore, ChUnderscore>>
        /\ (self = None /\ indices = StrEllipsis) =>
              ident = <<ChA, ChA + 1, ChUnderscore, ChUnderscore, ChUnderscore, ChUnderscore,
                        ChA + 1, ChA + 2, ChUnderscore, ChUnderscore, ChUnderscore, ChUnderscore,
                        ChUnderscore, ChA, ChA + 2, ChUnderscore, ChUnderscore, ChUnderscore>>

\* The identifier of ab...,bc...->ac... has been made.
C19_Witness ==
    /\ pc = "named"
    /\ self = None
    /\ indices = StrEllipsis
    /\ Len(ident) = 18
    /\ Cardinality({k \in 1..Len(ident) : ident[k] = ChUnderscore}) = 12

(***************************************************************************)
(* C20                                                                     *)
(***************************************************************************)
\* The macro has been expanded for a string that was read.
Expanded == pc = "subs" /\ expansion # None

\* C20: the entry compares the number of input subscripts with the number of
\* argument expressions and, when they differ, fails compilation with a
\* diagnostic citing both counts and emits nothing; when they are equal it
\* goes on to emission.
C20_ArgumentCount ==
    Expanded =>
        IF Len(subs.inputs) # args
        THEN /\ expansion.kind = "error"
             /\ expansion.emitted = <<>>
             /\ {Len(subs.inputs), args} \subseteq Range(expansion.formatted)
        ELSE /\ expansion.kind = "tokens"
             /\ expansion.emitted # <<>>

(***************************************************************************)
(* C21                                                                     *)
(***************************************************************************)
\* The indices that occur more than once in the inputs.
Repeated(ss) == {x \in InputIndexSet(ss) : count_indices(ss.inputs)[x] > 1}

\* einsum!("ii->i", a) was run on a 2 x 2 matrix.
DiagRan ==
    /\ pc = "ran"
    /\ indices = DiagIndices
    /\ shapes = <<<<2, 2>>>>

\* C21: an index that is repeated in the inputs and also occurs in the
\* output is not a contraction index; for ii->i the plan is one step, the
\* kernel is one loop, over the index i was read as, around the statement
\* out[(i)] = arg0[(i, i)], and the result for [[1, 2], [3, 4]] is the
\* diagonal [1, 4].
C21_RepeatedOutputIndex ==
    /\ pc \in {"subs", "ran", "done"} =>
          \A x \in Repeated(subs) \cap Range(IndicesOf(subs.output)) :
              /\ x \notin contraction_indices(subs)
              /\ Cardinality({k \in 1..Len(LoopVars(contraction(subs))) :
                                 LoopVars(contraction(subs))[k] = x}) = OutputCount(subs, subs, x)
    /\ (indices = DiagIndices /\ pc = "done") =>
          /\ Len(path) = 1
          /\ path[1] = subs
    /\ (indices = DiagIndices /\ pc \in {"subs", "ran", "done"}) =>
          /\ subs.origin[IndicesOf(subs.output)[1]] = 105
          /\ contraction(subs) =
                for_tt(IndicesOf(subs.output)[1],
                       [kind |-> "assign",
                        output |-> Subscript(Indices(<<IndicesOf(subs.output)[1]>>), Out(0)),
                        args |-> <<Subscript(Indices(<<IndicesOf(subs.output)[1],
                                                       IndicesOf(subs.output)[1]>>), Arg(0))>>])
    /\ DiagRan =>
          /\ ~IsError(result)
          /\ result.shape = <<2>>
          /\ [t \in IndexTuples(result.shape) |-> ValueOf(result.data[t])]
                = (<<0>> :> 1) @@ (<<1>> :> 4)

\* The diag test has run: one loop, and the element 1 of the result is the
\* element (1, 1) of the argument.
C21_Witness ==
    /\ DiagRan
    /\ Len(LoopVars(contraction(subs))) = 1
    /\ result.data[<<1>>] = Atom(Arg(0), <<1, 1>>)

(***************************************************************************)
(* C22                                                                     *)
(***************************************************************************)
\* The driver block of the plan has been emitted.
Emitted == pc = "emitted"

\* The definitions of the block that have the name of step k.
DefsOf(k) ==
    {d \in 1..Len(expansion.defs) : expansion.defs[d].fn_name = escaped_ident(path[k])}

\* C22: in the driver block of a plan exactly one function definition is
\* emitted for every escaped_ident() of its steps, also when two steps have
\* the same, and every step calls the definition of its name as
\* `let <output position> = <escaped_ident>(<input positions in order>);`;
\* for ab,bc,cd->ad the block is one definition, out1 = ab_bc__ac(arg0, arg1)
\* and out0 = ab_bc__ac(out1, arg2).
C22_OneDefinition ==
    Emitted =>
        /\ Len(expansion.calls) = Len(path)
        /\ \A k \in 1..Len(path) :
              /\ Cardinality(DefsOf(k)) = 1
              /\ expansion.calls[k].kind = "let"
              /\ expansion.calls[k].out = path[k].output.position
              /\ expansion.calls[k].fn_name = escaped_ident(path[k])
              /\ expansion.calls[k].args
                    = [i \in 1..Len(path[k].inputs) |-> path[k].inputs[i].position]
        /\ \A d \in 1..Len(expansion.defs) : \E k \in 1..Len(path) : d \in DefsOf(k)
        /\ indices = StrAbBcCdAd =>
              /\ Len(expansion.defs) = 1
              /\ expansion.calls
                    = <<[kind |-> "let", out |-> Out(1),
                         fn_name |-> <<ChA, ChA + 1, ChUnderscore, ChA + 1, ChA + 2,
                                       ChUnderscore, ChUnderscore, ChA, ChA + 2>>,
                         args |-> <<Arg(0), Arg(1)>>],
                        [kind |-> "let", out |-> Out(0),
                         fn_name |-> <<ChA, ChA + 1, ChUnderscore, ChA + 1, ChA + 2,
                                       ChUnderscore, ChUnderscore, ChA, ChA + 2>>,
                         args |-> <<Out(1), Arg(2)>>]>>

\* The block of a plan two steps of which have the same escaped_ident() has
\* been emitted, with fewer definitions than steps.
C22_Witness ==
    /\ Emitted
    /\ \E j, k \in 1..Len(path) : j < k /\ escaped_ident(path[j]) = escaped_ident(path[k])
    /\ Len(expansion.defs) < Len(path)

(***************************************************************************)
(* C23                                                                     *)
(***************************************************************************)
\* The steps of p write to Out(1), Out(2), .. and the last to Out(0).
NumberedInOrder(p) ==
    /\ \A k \in 1..(Len(p) - 1) : p[k].output.position = Out(k)
    /\ Last(p).output.position = Out(0)

\* C23: the steps of the plan Path::brute_force returns write to Out(1),
\* Out(2), .., Out(k - 1) and Out(0), in the order of the steps, whatever
\* candidates were tried and rejected, and a call of brute_force_work leaves
\* the counter of the Namespace of its caller as it was.
C23_BranchNumbering ==
    [][pc' = "done" =>
          /\ pc = "start" => NumberedInOrder(path') /\ names'.last = 1
          /\ pc = "fact" => names' = names]_vars

\* A plan of three steps was chosen among the candidates of four tensors.
C23_Witness ==
    /\ Planned
    /\ Len(path) = 3
    /\ Len(subs.inputs) = 4
    /\ names.last = 1
    /\ path[2].output.position = Out(2)

(***************************************************************************)
(* C24                                                                     *)
(***************************************************************************)
RECURSIVE Given(_, _, _)
\* The number of inputs of the Subscripts given to the call that made step k
\* of p, when the outermost call was given n: a call that factorizes m of
\* its g inputs hands g - m + 1 to the next.
Given(p, k, n) ==
    IF k = 1 THEN n ELSE Given(p, k - 1, n) - Len(p[k - 1].inputs) + 1

\* Every step of p but the last takes at least two and not all of the inputs
\* its call was given, so that the next call is given fewer; the last step
\* takes what is left.
WellSplit(p, n) ==
    \A k \in 1..Len(p) :
        IF k < Len(p)
        THEN /\ Len(p[k].inputs) >= 2
             /\ Len(p[k].inputs) <= Given(p, k, n) - 1
             /\ Given(p, k + 1, n) < Given(p, k, n)
        ELSE Len(p[k].inputs) = Given(p, k, n)

\* C24: brute_force_work returns for every Subscripts of n inputs; in every
\* candidate it builds, factorize was called with at least 2 and at most
\* g - 1 of the g inputs of the call, each recursive call was given fewer
\* inputs than its caller, the calls are nested at most n - 2 deep (a
\* candidate has at most n - 1 steps), and the plan returned has at most
\* n - 1 steps for n >= 2 and exactly one step for n <= 2.
C24_BoundedRecursion ==
    pc = "done" =>
        /\ \A c \in Range(subpaths(names, subs)) \cup {path} :
              /\ WellSplit(c, Len(subs.inputs))
              /\ Len(c) - 1 <= Max2(Len(subs.inputs) - 2, 0)
        /\ Len(subs.inputs) >= 2 => Len(path) <= Len(subs.inputs) - 1
        /\ Len(subs.inputs) <= 2 => Len(path) = 1

\* A call with four inputs returned a plan of three steps, the recursion
\* two calls deep.
C24_Witness ==
    /\ pc = "done"
    /\ Len(subs.inputs) = 4
    /\ Len(path) = 3
    /\ Given(path, 3, 4) = 2

(***************************************************************************)
(* C25                                                                     *)
(***************************************************************************)
\* Input i of ss is the i-th argument of the user, i counted from 1.
AtArgs(ss) == \A i \in 1..Len(ss.inputs) : ss.inputs[i].position = Arg(i - 1)

\* C25: for every subscripts with one or two inputs Path::brute_force
\* returns a plan of exactly one step, which is the canonical Subscripts
\* from_raw makes of the string, with the inputs at arg0 (and arg1) and the
\* output at out0, and no factorization is made; ab,bc->ac gives
\* ab,bc->ac | arg0,arg1->out0 and the implicit ji gives ab->ba | arg0->out0.
C25_ShortInputs ==
    (Planned /\ Len(original.inputs) <= 2) =>
        /\ Len(path) = 1
        /\ path[1] = from_raw_indices(Namespace_init, indices).value
        /\ path[1] = original
        /\ IsCanonical(path[1])
        /\ AtArgs(path[1])
        /\ path[1].output.position = Out(0)
        /\ names.last = 1
        /\ indices \in {StrAbBcAc, MatmulIndices} =>
              /\ path[1].inputs = <<Subscript(Indices(<<ChA, ChA + 1>>), Arg(0)),
                                    Subscript(Indices(<<ChA + 1, ChA + 2>>), Arg(1))>>
              /\ path[1].output = Subscript(Indices(<<ChA, ChA + 2>>), Out(0))
        /\ indices = StrJi =>
              /\ path[1].inputs = <<Subscript(Indices(<<ChA, ChA + 1>>), Arg(0))>>
              /\ path[1].output = Subscript(Indices(<<ChA + 1, ChA>>), Out(0))

\* The plan of the implicit ji has been made: one step, the output with its
\* letters in the order b, a.
C25_Witness ==
    /\ Planned
    /\ indices = StrJi
    /\ Len(path) = 1
    /\ IndicesOf(path[1].output) = <<ChA + 1, ChA>>

(***************************************************************************)
(* C26                                                                     *)
(***************************************************************************)
\* The places <<step, input>> of the plan p.
PlanSlots(p) == UNION {{<<k, i>> : i \in 1..Len(p[k].inputs)} : k \in 1..Len(p)}

\* The places of p where the tensor at position x is taken as input.
Consumers(p, x) == {q \in PlanSlots(p) : p[q[1]].inputs[q[2]].position = x}

\* The steps of p that write the tensor at position x.
Producers(p, x) == {k \in 1..Len(p) : p[k].output.position = x}

\* C26: in every plan Path::brute_force returns for n inputs, the input
\* positions inside each step are pairwise distinct; each argument Arg(i),
\* i < n, is an input of exactly one step; the output of each step but the
\* last is an Out(k) that exactly one step produces and that is an input of
\* exactly one step, a strictly later one; and every Out(k) a step takes as
\* input is the output of an earlier step.
C26_PlanWiring ==
    Planned =>
        /\ \A k \in 1..Len(path) :
              \A i, j \in 1..Len(path[k].inputs) :
                  i # j => path[k].inputs[i].position # path[k].inputs[j].position
        /\ \A i \in 0..(Len(original.inputs) - 1) :
              Cardinality(Consumers(path, Arg(i))) = 1
        /\ \A k \in 1..(Len(path) - 1) :
              /\ path[k].output.position.tag = "Out"
              /\ Producers(path, path[k].output.position) = {k}
              /\ Cardinality(Consumers(path, path[k].output.position)) = 1
              /\ \A q \in Consumers(path, path[k].output.position) : q[1] > k
        /\ \A q \in PlanSlots(path) :
              \/ /\ path[q[1]].inputs[q[2]].position.tag = "Arg"
                 /\ path[q[1]].inputs[q[2]].position.n < Len(original.inputs)
              \/ /\ path[q[1]].inputs[q[2]].position.tag = "Out"
                 /\ \E l \in 1..(q[1] - 1) :
                       path[l].output.position = path[q[1]].inputs[q[2]].position

\* A plan of three steps in which one step takes two intermediates.
C26_Witness ==
    /\ Planned
    /\ Len(path) = 3
    /\ \E k \in 1..Len(path) :
          Cardinality({i \in 1..Len(path[k].inputs) :
                          path[k].inputs[i].position.tag = "Out"}) = 2

(***************************************************************************)
(* C27                                                                     *)
(***************************************************************************)
\* The subscript s of the Subscripts ss and the subscript t of tt have as
\* many axes, and axis by axis they stand for the same index of the string
\* as written.
SameAxes(ss, s, tt, t) ==
    /\ Len(IndicesOf(s)) = Len(IndicesOf(t))
    /\ \A a \in 1..Len(IndicesOf(s)) :
          ss.origin[IndicesOf(s)[a]] = tt.origin[IndicesOf(t)[a]]

\* The ranks of the inputs of ss.
Ranks(ss) == [j \in 1..Len(ss.inputs) |-> Len(IndicesOf(ss.inputs[j]))]

\* C27: across the steps of a plan every tensor keeps its rank and the order
\* of its axes, although every step is relabelled on its own: the output of
\* the step that produces Out(k) and the input of the step that takes Out(k)
\* have as many indices, and the i-th stands for the same index of the
\* original expression in both; the same holds of Arg(i) between the
\* original Subscripts and the step that takes it; and the ranks in the
\* signature of the function emitted for a step are these numbers.
C27_RankAndAxes ==
    Emitted =>
        /\ \A q \in PlanSlots(path) :
              /\ \A l \in Producers(path, path[q[1]].inputs[q[2]].position) :
                    SameAxes(path[l], path[l].output, path[q[1]], path[q[1]].inputs[q[2]])
              /\ \A i \in 1..Len(original.inputs) :
                    original.inputs[i].position = path[q[1]].inputs[q[2]].position =>
                        SameAxes(original, original.inputs[i],
                                 path[q[1]], path[q[1]].inputs[q[2]])
        /\ SameAxes(original, original.output, Last(path), Last(path).output)
        /\ \A k \in 1..Len(path) :
              \A d \in DefsOf(k) :
                  /\ expansion.defs[d].dims = Ranks(path[k])
                  /\ expansion.defs[d].out_dim = Len(IndicesOf(path[k].output))

\* An intermediate of two axes whose letters in the step that produces it
\* are not its letters in the step that takes it.
C27_Witness ==
    /\ Emitted
    /\ \E q \in PlanSlots(path) :
          \E l \in Producers(path, path[q[1]].inputs[q[2]].position) :
              /\ l < q[1]
              /\ Len(IndicesOf(path[l].output)) = 2
              /\ IndicesOf(path[l].output) # IndicesOf(path[q[1]].inputs[q[2]])

(***************************************************************************)
(* C28                                                                     *)
(***************************************************************************)
\* Arrays for the inputs of ss, every axis of size 1.
UnitShapes(ss) == [k \in 1..Len(ss.inputs) |-> [a \in 1..Len(IndicesOf(ss.inputs[k])) |-> 1]]

\* The indices x whose n_x the statements of define_array_size bind.
DefinedSizes(ss) ==
    DOMAIN define_array_size(ss.inputs, arg_env(ss.inputs, UnitShapes(ss), 1), <<>>)

\* Every index of the output of ss occurs in an input of ss.
OutputFromInputs(ss) == Range(IndicesOf(ss.output)) \subseteq InputIndexSet(ss)

\* C28: when every index of the output of the original Subscripts occurs in
\* its inputs, every step of the plan Path::brute_force returns has all the
\* indices of its output among the indices of its own inputs, so that every
\* n_x define_output_array uses for the output of the step is bound by
\* define_array_size.
C28_StepOutputSizes ==
    (Planned /\ OutputFromInputs(original)) =>
        \A k \in 1..Len(path) :
            /\ OutputFromInputs(path[k])
            /\ Range(IndicesOf(path[k].output)) \subseteq DefinedSizes(path[k])

(***************************************************************************)
(* C29                                                                     *)
(***************************************************************************)
\* The index variables the assignment statement tt uses.
UsedIn(tt) == Range(InputLetters(tt.args)) \cup Range(IndicesOf(tt.output))

\* C29: for every Subscripts from_raw produces, with an explicit or an
\* implicit output, every index of an input is an index of the output or a
\* contraction index, and so every index variable the innermost assignment
\* of the emitted kernel uses is the variable of a loop around it.
C29_IndicesBound ==
    pc \in {"subs", "ran"} =>
        /\ InputIndexSet(subs)
              \subseteq Range(IndicesOf(subs.output)) \cup contraction_indices(subs)
        /\ UsedIn(Innermost(contraction(subs))) \subseteq Range(LoopVars(contraction(subs)))

(***************************************************************************)
(* C30                                                                     *)
(***************************************************************************)
\* No name but the wildcard `_` is bound twice by the tuple pattern.
NoDoubleBinding(tuple) ==
    \A i, j \in 1..Len(tuple) :
        (i < j /\ tuple[i] = tuple[j]) => tuple[i] = <<ChUnderscore>>

\* C30: for every input subscript, also one in which an index repeats (ii in
\* ii->i), the names bound by the tuple pattern that destructures the shape
\* of the input are pairwise distinct or the wildcard `_`, in the statements
\* of pre_requirements of the einsum! entry as well as in those of
\* define_array_size and of array_size_asserts.
C30_DistinctSizeNames ==
    (Expanded /\ expansion.kind = "tokens") =>
        \A k \in 1..Len(subs.inputs) :
            /\ NoDoubleBinding(define_array_size_let(subs.inputs, {})[k])
            /\ NoDoubleBinding(array_size_asserts_let(subs.inputs)[k])
            /\ NoDoubleBinding(expansion.emitted[3][k])

=============================================================================
